---- MODULE Spec2Model ----
(***************************************************************************)
(* Model of the extraction concurrency engine of xPDFSearch:               *)
(* ThreadData (request, events, worker handle), PDFExtractor (worker main  *)
(* loop, open/close, extract, compare) and TcOutputDev (page loop).        *)
(*                                                                         *)
(* Threads: one consumer thread (the host's calling thread; the extractor  *)
(* is thread_local, so a session has exactly one consumer) and one worker  *)
(* thread per session.  Session 1 is PDFExtractor::m_data, session 2 is    *)
(* m_search->m_data (used by compare only).                                *)
(*                                                                         *)
(* Time is abstracted: a wait with a finite timeout may time out whenever  *)
(* its event is not set; a wait with INFINITE timeout never times out.     *)
(* Buffers are arrays of 16-bit cells; the cursor is a byte offset.        *)
(***************************************************************************)
EXTENDS Integers, Sequences, FiniteSets, TLC

(* ---------------------------------------------------------------------- *)
(* Bounds of the model                                                    *)
(* ---------------------------------------------------------------------- *)
\* number of 16-bit cells of Request::buffer (REQUEST_BUFFER_SIZE / 2)
BufCells == 5
\* number of calls (extract, stop) the consumer makes in one behaviour
MaxCalls == 2
\* the count of processed bytes is followed up to this number
MaxBytes == 4
\* number of waits that expire during one compare call
MaxTimeouts == 1
\* number of compare calls in one behaviour
MaxCompares == 1

(* ---------------------------------------------------------------------- *)
(* Program constants                                                      *)
(* ---------------------------------------------------------------------- *)
sizeOfWchar == 2
REQUEST_BUFFER_SIZE == sizeOfWchar * BufCells

\* contentplug.h
ft_numeric_32 == 1
ft_stringw == 11
ft_fulltextw == 12
ft_nosuchfield == -1
ft_fileerror == -2
ft_fieldempty == -3
ft_setsuccess == 0
ft_timeout == 1
ft_compare_eq_txt == 2
ft_compare_eq == 1
ft_compare_not_eq == 0
ft_compare_err == -1
ft_compare_abort == -2
ft_compare_next == -3

\* the consumer timeout of the disabled build branch of ThreadData.hh (#if 0)
CONSUMER_TIMEOUT_disabledBranch == "infinite"

\* timeouts of ThreadData.hh: a finite timeout may expire, INFINITE never
CONSUMER_TIMEOUT == "finite"
PRODUCER_TIMEOUT == "finite"
INFINITE == "infinite"

\* results of WaitForSingleObject / SignalObjectAndWait
WAIT_OBJECT_0 == "WAIT_OBJECT_0"
WAIT_TIMEOUT == "WAIT_TIMEOUT"
WAIT_FAILED == "WAIT_FAILED"

\* requestStatus
closed == "closed"
active == "active"
complete == "complete"
cancelled == "cancelled"
requestStatus == {closed, active, complete, cancelled}

\* fields (xPDFInfo.hh)
fiTitle == "fiTitle"
fiNumberOfPages == "fiNumberOfPages"
fiOutlines == "fiOutlines"
fiText == "fiText"

\* sessions: 1 is m_data of the extractor, 2 is m_search->m_data
S == {1, 2}
\* file names; 0 is nullptr / the empty string
NoFile == 0
Files == {1, 2, 3}
\* the path of file 1 spelled in the other letter case
OtherCase == 7

\* characters are UTF-16 code units: 0 is NUL, 32 a blank, 97 'a', 65 'A', 98 'b'
NUL == 0

VARIABLES
    status,     \* Request::status (atomic), per session
    isActive,   \* ThreadData::active (atomic), per session
    prodEv,     \* producer event is signaled, per session
    consEv,     \* consumer event is signaled, per session
    hasEvents,  \* producer and consumer events are created, per session
    hasWorker,  \* handles[WORKER_HANDLE] != nullptr, per session
    req,        \* Request: fileName, field, unit, timeout, result
    buf,        \* Request::buffer as cells 1..BufCells
    ptr,        \* Request::ptr as a byte offset from Request::buffer
    mtx,        \* ThreadData::mutex: "free", "w" (worker) or "c" (consumer)
    doc,        \* PDFExtractor::m_doc: the open file or NoFile
    mFileName,  \* PDFExtractor::m_fileName
    w,          \* worker thread of the session: position and locals
    threadID,   \* static threadID of ThreadData::createWorker
    c,          \* consumer thread: position and locals
    docs,       \* the files on disk: openable, pages of text, title
    noCache,    \* globalOptionsFromIni.noCache
    destroyed,  \* the extractor object has been deleted (destroy())
    g           \* history of the run, read by the properties only

vars == << status, isActive, prodEv, consEv, hasEvents, hasWorker, req, buf, ptr,
           mtx, doc, mFileName, w, threadID, c, docs, noCache, destroyed, g >>

sessVars == << status, isActive, prodEv, consEv, hasEvents, hasWorker, req, buf, ptr,
               mtx, doc, mFileName, w >>

(* ---------------------------------------------------------------------- *)
(* Helpers                                                                *)
(* ---------------------------------------------------------------------- *)
Min(a, b) == IF a < b THEN a ELSE b

isStreaming(field) == (field = fiText) \/ (field = fiOutlines)

\* Request::remaining()
remaining(s) == REQUEST_BUFFER_SIZE - ptr[s]

\* the first cell of the buffer, whatever the offset
CellAt_bufferStart(p) == 1

\* cell index (1-based) of the byte offset p
CellAt(p) == (p \div sizeOfWchar) + 1

\* StringCchLengthW(buffer, REQUEST_BUFFER_SIZE / sizeof(wchar_t)): number of
\* cells before the first NUL; the call fails and leaves 0 when there is none
RECURSIVE ScanLen(_, _)
ScanLen(b, i) ==
    IF i > Len(b) THEN 0
    ELSE IF b[i] = NUL THEN i - 1
    ELSE ScanLen(b, i + 1)

StrLen(b) == ScanLen(b, 1)

\* memset(buffer + from, 0, n cells)
ZeroCells(b, n) == [i \in 1..Len(b) |-> IF i <= n THEN NUL ELSE b[i]]

ZeroBuffer == [i \in 1..BufCells |-> NUL]

(* ---------------------------------------------------------------------- *)
(* Worker thread: PDFExtractor::waitForProducer and what it calls         *)
(* ---------------------------------------------------------------------- *)
\* the threads: thread s is the worker of session s; thread OldThread is a
\* worker of session 1 that an abort() has left behind
OldThread == 3
Threads == S \cup {OldThread}
SessOf(t) == IF t = OldThread THEN 1 ELSE t

WSet(t, pc) == w' = [w EXCEPT ![t].pc = pc]

\* a path in lower case: the two spellings of file 1 fold to one
towlower(path) == IF path = OtherCase THEN 1 ELSE path

\* a comparison of two paths that tells the letter cases apart
wcsicmp_caseSensitive(a, b) == IF a = b THEN 0 ELSE 1

\* wcsicmp: 0 when the paths are equal without regard to letter case
wcsicmp(a, b) == IF towlower(a) = towlower(b) THEN 0 ELSE 1

\* PDFExtractor::closeDoc: unconditional status write, document released
closeDoc(s) ==
    /\ status' = [status EXCEPT ![s] = closed]
    /\ doc' = [doc EXCEPT ![s] = NoFile]

\* PDFExtractor::close
close(s) ==
    /\ mFileName' = [mFileName EXCEPT ![s] = NoFile]
    /\ closeDoc(s)

\* an exchange that does not compare: the new status whatever the old one is
setStatusCond_unguarded(s, new_status, current_status) == new_status

\* ThreadData::setStatusCond as a value: the status after the exchange
setStatusCond(s, new_status, current_status) ==
    IF status[s] = current_status THEN new_status ELSE status[s]

\* first statement of waitForProducer: setActive(true), timeout = PRODUCER_TIMEOUT
W_setActive(t) ==
    LET s == SessOf(t) IN
    /\ w[t].pc = "start"
    /\ isActive' = [isActive EXCEPT ![s] = TRUE]
    /\ w' = [w EXCEPT ![t].pc = "loop", ![t].timeout = PRODUCER_TIMEOUT]
    /\ UNCHANGED << status, prodEv, consEv, hasEvents, hasWorker, req, buf, ptr, mtx,
                    doc, mFileName >>

\* while (m_data->isActive())
W_loop(t) ==
    LET s == SessOf(t) IN
    /\ w[t].pc = "loop"
    /\ WSet(t, IF isActive[s] THEN "wait" ELSE "exit")
    /\ UNCHANGED << status, isActive, prodEv, consEv, hasEvents, hasWorker, req, buf,
                    ptr, mtx, doc, mFileName >>

\* producer idle point, WAIT_OBJECT_0: the event resets itself, the status is read
W_signaled(t) ==
    LET s == SessOf(t) IN
    /\ w[t].pc = "wait"
    /\ prodEv[s]
    /\ prodEv' = [prodEv EXCEPT ![s] = FALSE]
    /\ WSet(t, IF status[s] # cancelled /\ status[s] # complete THEN "open" ELSE "fin1")
    /\ UNCHANGED << status, isActive, consEv, hasEvents, hasWorker, req, buf, ptr, mtx,
                    doc, mFileName >>

\* producer idle point, WAIT_TIMEOUT
W_timeout(t) ==
    LET s == SessOf(t) IN
    /\ w[t].pc = "wait"
    /\ ~prodEv[s]
    /\ w[t].timeout # INFINITE
    /\ WSet(t, "to_close")
    /\ UNCHANGED << status, isActive, prodEv, consEv, hasEvents, hasWorker, req, buf,
                    ptr, mtx, doc, mFileName >>

\* the idle timeout without close(): the document is kept
W_idleClose_keepDoc(t) ==
    LET s == SessOf(t) IN
    /\ w[t].pc = "to_close"
    /\ w' = [w EXCEPT ![t].pc = "loop", ![t].timeout = INFINITE]
    /\ UNCHANGED << status, doc, mFileName, isActive, prodEv, consEv, hasEvents,
                    hasWorker, req, buf, ptr, mtx >>

\* no new request: close(); timeout = INFINITE
W_idleClose(t) ==
    LET s == SessOf(t) IN
    /\ w[t].pc = "to_close"
    /\ close(s)
    /\ w' = [w EXCEPT ![t].pc = "loop", ![t].timeout = INFINITE]
    /\ UNCHANGED << isActive, prodEv, consEv, hasEvents, hasWorker, req, buf, ptr, mtx >>

\* open(): the request's file name is read under the mutex
W_openRead(t) ==
    LET s == SessOf(t) IN
    /\ w[t].pc = "open"
    /\ mtx[s] = "free"
    /\ w' = [w EXCEPT ![t].pc = "open2", ![t].rf = req[s].fileName]
    /\ UNCHANGED << status, isActive, prodEv, consEv, hasEvents, hasWorker, req, buf,
                    ptr, mtx, doc, mFileName >>

\* open(): empty name closes; a first or a different name becomes the new file
\* (close() and closeDoc() of the new-file path are both status := closed)
W_openDecide(t) ==
    LET s == SessOf(t) IN
    /\ w[t].pc = "open2"
    /\ LET rf == w[t].rf IN
       IF rf = NoFile
       THEN /\ close(s)
            /\ w' = [w EXCEPT ![t].pc = "fin1", ![t].rf = NoFile]
       ELSE IF mFileName[s] = NoFile \/ wcsicmp(mFileName[s], rf) # 0
       THEN /\ mFileName' = [mFileName EXCEPT ![s] = rf]
            /\ closeDoc(s)
            /\ w' = [w EXCEPT ![t].pc = "open_act", ![t].rf = NoFile]
       ELSE /\ w' = [w EXCEPT ![t].pc = IF doc[s] # NoFile THEN "work" ELSE "fin1",
                              ![t].rf = NoFile]
            /\ UNCHANGED << status, doc, mFileName >>
    /\ UNCHANGED << isActive, prodEv, consEv, hasEvents, hasWorker, req, buf, ptr, mtx >>

\* open(): m_data->setStatus(requestStatus::active), an unconditional write
W_openSetActive(t) ==
    LET s == SessOf(t) IN
    /\ w[t].pc = "open_act"
    /\ status' = [status EXCEPT ![s] = active]
    /\ WSet(t, "open_make")
    /\ UNCHANGED << isActive, prodEv, consEv, hasEvents, hasWorker, req, buf, ptr, mtx,
                    doc, mFileName >>

\* open(): make_unique<PDFDocEx>; a document that is not ok is closed again
\* (no document has the empty name)
W_openMake(t) ==
    LET s == SessOf(t) IN
    /\ w[t].pc = "open_make"
    /\ IF mFileName[s] # NoFile /\ docs[mFileName[s]].ok
       THEN /\ doc' = [doc EXCEPT ![s] = mFileName[s]]
            /\ WSet(t, "work")
            /\ UNCHANGED << status, mFileName >>
       ELSE /\ close(s)
            /\ WSet(t, "open_err")
    /\ UNCHANGED << isActive, prodEv, consEv, hasEvents, hasWorker, req, buf, ptr, mtx >>

\* open(): setRequestResult(ft_fileerror) under the mutex, open() returns false
W_openErr(t) ==
    LET s == SessOf(t) IN
    /\ w[t].pc = "open_err"
    /\ mtx[s] = "free"
    /\ req' = [req EXCEPT ![s].result = ft_fileerror]
    /\ WSet(t, "fin1")
    /\ UNCHANGED << status, isActive, prodEv, consEv, hasEvents, hasWorker, buf, ptr,
                    mtx, doc, mFileName >>

\* doWork(): the field is read without the mutex, then the switch
W_doWork(t) ==
    LET s == SessOf(t) IN
    /\ w[t].pc = "work"
    /\ LET field == req[s].field IN
       w' = [w EXCEPT ![t].pc = IF field = fiNumberOfPages THEN "val"
                                 ELSE IF field = fiText THEN "page"
                                 ELSE "fin1",
                      ![t].page = 1, ![t].pos = 0]
    /\ UNCHANGED << status, isActive, prodEv, consEv, hasEvents, hasWorker, req, buf,
                    ptr, mtx, doc, mFileName >>

\* the 32-bit value v as two 16-bit cells, low word first
Int32Cells(v) == << v % 65536, (v \div 65536) % 65536 >>

\* setValue<int>(m_doc->getNumPages(), ft_numeric_32): 4 bytes at the buffer start
setValue(s) ==
    LET cells == Int32Cells(Len(docs[doc[s]].pages)) IN
    /\ buf' = [buf EXCEPT ![s] = [i \in 1..BufCells |->
                                   IF i <= 2 THEN cells[i] ELSE buf[s][i]]]
    /\ req' = [req EXCEPT ![s].result = ft_numeric_32]

W_setValue(t) ==
    LET s == SessOf(t) IN
    /\ w[t].pc = "val"
    /\ mtx[s] = "free"
    /\ setValue(s)
    /\ WSet(t, "fin1")
    /\ UNCHANGED << status, isActive, prodEv, consEv, hasEvents, hasWorker, ptr, mtx,
                    doc, mFileName >>

\* TcOutputDev::output page loop and outputFunction: both want the status active
W_page(t) ==
    LET s == SessOf(t) IN
    /\ w[t].pc = "page"
    /\ LET pages == docs[doc[s]].pages IN
       IF w[t].page <= Len(pages) /\ status[s] = active
       THEN IF Len(pages[w[t].page]) > 0
            THEN w' = [w EXCEPT ![t].pc = "out", ![t].pos = 0]
            ELSE w' = [w EXCEPT ![t].page = @ + 1]
       ELSE WSet(t, "fin1")
    /\ UNCHANGED << status, isActive, prodEv, consEv, hasEvents, hasWorker, req, buf,
                    ptr, mtx, doc, mFileName >>

\* ThreadData::output: std::unique_lock lock(mutex)
W_outLock(t) ==
    LET s == SessOf(t) IN
    /\ w[t].pc = "out"
    /\ mtx[s] = "free"
    /\ mtx' = [mtx EXCEPT ![s] = "w"]
    /\ WSet(t, "out_locked")
    /\ UNCHANGED << status, isActive, prodEv, consEv, hasEvents, hasWorker, req, buf,
                    ptr, doc, mFileName >>

\* number of characters PdfTxtToUTF16 converts into cb free bytes: it stops when
\* no more than sizeOfWchar + 1 bytes are left
Convertible(len, cb) == IF cb > sizeOfWchar + 1 THEN Min(len, (cb - 2) \div sizeOfWchar) ELSE 0

\* ThreadData::output, the locked part: a full buffer releases the lock and waits;
\* otherwise text is converted at the cursor, NUL-terminated, and the cursor moves
output(t) ==
    LET s    == SessOf(t)
        text == docs[doc[s]].pages[w[t].page]
        left == Len(text) - w[t].pos
        cb   == remaining(s)
        n    == Convertible(left, cb)
        base == CellAt(ptr[s])
        field == req[s].field
    IN
    IF cb <= 2
    THEN /\ WSet(t, "out_wait")
         /\ UNCHANGED << buf, ptr, req >>
    ELSE /\ buf' = [buf EXCEPT ![s] = [i \in 1..BufCells |->
                        IF i >= base /\ i < base + n THEN text[w[t].pos + (i - base) + 1]
                        ELSE IF i = base + n THEN NUL
                        ELSE buf[s][i]]]
         /\ ptr' = [ptr EXCEPT ![s] = @ + sizeOfWchar * n]
         /\ req' = [req EXCEPT ![s].result =
                        IF n = 0 THEN @ ELSE IF isStreaming(field) THEN ft_fulltextw ELSE ft_stringw]
         /\ w' = [w EXCEPT ![t].field = field,
                           ![t].pos = IF n = 0 \/ ~isStreaming(field) THEN Len(text) ELSE @ + n,
                           ![t].pc = IF cb - sizeOfWchar * n <= 2 THEN "out_full" ELSE "out_next"]

W_outBody(t) ==
    LET s == SessOf(t) IN
    /\ w[t].pc = "out_locked"
    /\ mtx[s] = "w"
    /\ output(t)
    /\ mtx' = [mtx EXCEPT ![s] = "free"]
    /\ UNCHANGED << status, isActive, prodEv, consEv, hasEvents, hasWorker, doc, mFileName >>

\* output() returned 0: the page is done, the page loop goes on
W_outNext(t) ==
    LET s == SessOf(t) IN
    /\ w[t].pc = "out_next"
    /\ w' = [w EXCEPT ![t].pc = "page", ![t].page = @ + 1, ![t].pos = 0]
    /\ UNCHANGED << status, isActive, prodEv, consEv, hasEvents, hasWorker, req, buf,
                    ptr, mtx, doc, mFileName >>

\* output(): waitForProducer(timeout) == WAIT_OBJECT_0, then the status is read
W_outSignaled(t) ==
    LET s == SessOf(t) IN
    /\ w[t].pc = "out_wait"
    /\ prodEv[s]
    /\ prodEv' = [prodEv EXCEPT ![s] = FALSE]
    /\ WSet(t, IF status[s] # active THEN "fin1" ELSE "out")
    /\ UNCHANGED << status, isActive, consEv, hasEvents, hasWorker, req, buf, ptr, mtx,
                    doc, mFileName >>

\* output(): the consumer did not ask for more within Request::timeout
W_outTimeout(t) ==
    LET s == SessOf(t) IN
    /\ w[t].pc = "out_wait"
    /\ ~prodEv[s]
    /\ req[s].timeout # INFINITE
    /\ status' = [status EXCEPT ![s] = setStatusCond(s, cancelled, active)]
    /\ WSet(t, "fin1")
    /\ UNCHANGED << isActive, prodEv, consEv, hasEvents, hasWorker, req, buf, ptr, mtx,
                    doc, mFileName >>

\* output(): no bytes left in the buffer
W_outFull(t) ==
    LET s == SessOf(t) IN
    /\ w[t].pc = "out_full"
    /\ IF isStreaming(w[t].field)
       THEN /\ WSet(t, IF status[s] = active THEN "out_ntf" ELSE "fin1")
            /\ UNCHANGED status
       ELSE /\ status' = [status EXCEPT ![s] = setStatusCond(s, complete, active)]
            /\ WSet(t, "fin1")
    /\ UNCHANGED << isActive, prodEv, consEv, hasEvents, hasWorker, req, buf, ptr, mtx,
                    doc, mFileName >>

\* output(): notifyConsumer(), then while (len)
W_outNotify(t) ==
    LET s == SessOf(t) IN
    /\ w[t].pc = "out_ntf"
    /\ consEv' = [consEv EXCEPT ![s] = TRUE]
    /\ WSet(t, IF w[t].pos < Len(docs[doc[s]].pages[w[t].page]) THEN "out" ELSE "out_next")
    /\ UNCHANGED << status, isActive, prodEv, hasEvents, hasWorker, req, buf, ptr, mtx,
                    doc, mFileName >>

\* waitForProducer: setStatusCond(complete, active)
W_fin1(t) ==
    LET s == SessOf(t) IN
    /\ w[t].pc = "fin1"
    /\ status' = [status EXCEPT ![s] = setStatusCond(s, complete, active)]
    /\ WSet(t, "fin2")
    /\ UNCHANGED << isActive, prodEv, consEv, hasEvents, hasWorker, req, buf, ptr, mtx,
                    doc, mFileName >>

\* waitForProducer: setStatusCond(closed, cancelled); a cancelled request closes
W_fin2(t) ==
    LET s == SessOf(t) IN
    /\ w[t].pc = "fin2"
    /\ IF status[s] = cancelled
       THEN /\ close(s)
            /\ WSet(t, "fin_ntf")
       ELSE /\ WSet(t, IF noCache THEN "fin_close" ELSE "fin_ntf")
            /\ UNCHANGED << status, doc, mFileName >>
    /\ UNCHANGED << isActive, prodEv, consEv, hasEvents, hasWorker, req, buf, ptr, mtx >>

\* waitForProducer: noCache closes the file after every request
W_finClose(t) ==
    LET s == SessOf(t) IN
    /\ w[t].pc = "fin_close"
    /\ close(s)
    /\ WSet(t, "fin_ntf")
    /\ UNCHANGED << isActive, prodEv, consEv, hasEvents, hasWorker, req, buf, ptr, mtx >>

\* waitForProducer: resetProducer(); notifyConsumer(); timeout = PRODUCER_TIMEOUT
W_finNotify(t) ==
    LET s == SessOf(t) IN
    /\ w[t].pc = "fin_ntf"
    /\ prodEv' = [prodEv EXCEPT ![s] = FALSE]
    /\ consEv' = [consEv EXCEPT ![s] = TRUE]
    /\ w' = [w EXCEPT ![t].pc = "loop", ![t].timeout = PRODUCER_TIMEOUT]
    /\ UNCHANGED << status, isActive, hasEvents, hasWorker, req, buf, ptr, mtx, doc,
                    mFileName >>

\* waitForProducer: the loop has ended, close() and the thread exits
W_exit(t) ==
    LET s == SessOf(t) IN
    /\ w[t].pc = "exit"
    /\ close(s)
    /\ WSet(t, "exited")
    /\ UNCHANGED << isActive, prodEv, consEv, hasEvents, hasWorker, req, buf, ptr, mtx >>

Worker(s) ==
    \/ W_setActive(s) \/ W_loop(s) \/ W_signaled(s) \/ W_timeout(s) \/ W_idleClose(s)
    \/ W_openRead(s) \/ W_openDecide(s) \/ W_openSetActive(s) \/ W_openMake(s)
    \/ W_openErr(s) \/ W_doWork(s) \/ W_setValue(s) \/ W_page(s)
    \/ W_outLock(s) \/ W_outBody(s) \/ W_outNext(s) \/ W_outSignaled(s)
    \/ W_outTimeout(s) \/ W_outFull(s) \/ W_outNotify(s)
    \/ W_fin1(s) \/ W_fin2(s) \/ W_finClose(s) \/ W_finNotify(s) \/ W_exit(s)

(* ---------------------------------------------------------------------- *)
(* Consumer thread: the calls of the host                                 *)
(* ---------------------------------------------------------------------- *)
\* during one compare() at most MaxTimeouts waits expire; g.tmo counts them
TimeoutLeft == (c.op = "compare") => (g.tmo < MaxTimeouts)

TimeoutsAfter == IF c.op = "compare" THEN g.tmo + 1 ELSE g.tmo

CSet(pc) == c' = [c EXCEPT !.pc = pc]

\* a section that does not take the mutex
lock_guard_none(s) == TRUE

\* std::lock_guard lock(m_data->mutex) of the consumer: the section it guards
\* runs when the mutex can be taken
lock_guard(s) == mtx[s] = "free"

\* a call returns to the host with this result
Return(result) == [c EXCEPT !.pc = "idle", !.op = "none", !.result = result]

\* setRequestPtr without the test of the position
setRequestPtr_anyPos(s, pos) == pos

\* ThreadData::setRequestPtr as a value: the cursor after the call
setRequestPtr(s, pos) ==
    IF (pos >= 0) /\ (pos < REQUEST_BUFFER_SIZE) THEN pos ELSE ptr[s]

\* initRequest rewinding the cursor for every request
initRequestPtr_rewindAlways(s, field, unit) == 0

\* ThreadData::initRequest: the cursor after the call
initRequestPtr(s, field, unit) ==
    IF ~(isStreaming(field) /\ (unit > 0)) THEN 0 ELSE ptr[s]

\* ThreadData::initRequest
initRequest(s, fileName, field, unit, timeout) ==
    LET np == initRequestPtr(s, field, unit) IN
    /\ ptr' = [ptr EXCEPT ![s] = np]
    /\ req' = [req EXCEPT ![s] = [fileName |-> fileName, field |-> field, unit |-> unit,
                                  timeout |-> timeout,
                                  result |-> IF np = 0 THEN ft_fieldempty ELSE ft_fulltextw]]
    /\ buf' = [buf EXCEPT ![s] = IF np = 0 THEN ZeroCells(@, 5) ELSE @]

initRequestResult(s, field, unit) ==
    IF initRequestPtr(s, field, unit) = 0 THEN ft_setsuccess ELSE ft_timeout

\* createWorker without the test of the worker handle: every call that can
\* create a thread creates one
createWorker_noHandleTest(s, ok) ==
    IF ok
    THEN /\ hasWorker' = [hasWorker EXCEPT ![s] = TRUE]
         /\ w' = [w EXCEPT ![s].pc = "start"]
         /\ threadID' = g.created[1] + g.created[2] + 1
         /\ g' = [g EXCEPT !.created[s] = @ + 1]
    ELSE /\ UNCHANGED << hasWorker, w, threadID, g >>

\* the locals of a thread that has not been created
InitWorker == [pc |-> "none", timeout |-> PRODUCER_TIMEOUT, rf |-> NoFile,
               field |-> fiTitle, page |-> 1, pos |-> 0]

\* the thread t exists and has not returned from waitForProducer
Running(t) == w[t].pc \notin {"none", "exited"}

\* ThreadData::createWorker: a thread is created only when there is no handle;
\* a thread of session 1 that is still running then is the old thread from now on;
\* _beginthreadex may fail (ok = FALSE); the static threadID keeps its old value then.
\* g.created counts the threads created, g.reused the calls that found a handle.
createWorker(s, ok) ==
    IF ~hasWorker[s]
    THEN IF ok
         THEN /\ hasWorker' = [hasWorker EXCEPT ![s] = TRUE]
              /\ w' = IF (s = 1) /\ Running(1)
                      THEN [w EXCEPT ![OldThread] = w[1],
                                     ![1] = [InitWorker EXCEPT !.pc = "start"]]
                      ELSE [w EXCEPT ![s].pc = "start"]
              /\ threadID' = g.created[1] + g.created[2] + 1
              /\ g' = [g EXCEPT !.created[s] = @ + 1]
         ELSE UNCHANGED << hasWorker, w, threadID, g >>
    ELSE /\ UNCHANGED << hasWorker, w, threadID >>
         /\ g' = [g EXCEPT !.reused[s] = Min(@ + 1, MaxCalls)]

\* ThreadData::start: both events are created, then the worker
start(s, ok) ==
    /\ hasEvents' = [hasEvents EXCEPT ![s] = TRUE]
    /\ createWorker(s, ok)

\* the file name a call passes to initData for session s
FileOf(s) == IF s = 1 THEN c.file ELSE c.file2

\* ContentGetValueW -> PDFExtractor::extract(fileName, field, unit, dst, dstSize)
C_extract(in) ==
    /\ c.pc = "idle"
    /\ c.calls < MaxCalls
    /\ c' = [c EXCEPT !.pc = "id_begin", !.op = "extract", !.calls = @ + 1,
                      !.file = in.file, !.field = in.field, !.unit = in.unit,
                      !.hasDst = in.hasDst, !.dstSize = in.dstSize,
                      !.is = 1, !.it = PRODUCER_TIMEOUT,
                      !.armed = FALSE, !.pPre = 0, !.pInit = 0]
    /\ g' = [g EXCEPT !.cancel = "none", !.tmo = 0, !.sidle = FALSE, !.sdoc = NoFile]
    /\ UNCHANGED << sessVars, threadID >>

\* initData on session c.is: a streaming request with unit <= 0 calls
\* PDFExtractor::stop first; otherwise a cancelled request is waited for
C_idBegin ==
    /\ c.pc = "id_begin"
    /\ LET after == IF c.unit = -1 THEN "ret_empty" ELSE "id_chk" IN
       IF isStreaming(c.field) /\ (c.unit <= 0)
       THEN c' = [c EXCEPT !.pc = "stop_cas", !.ws = c.is,
                           !.sr = IF c.is = 1 THEN "stop_search" ELSE after,
                           !.sr2 = after]
       ELSE CSet(IF status[c.is] = cancelled THEN "id_wait" ELSE "id_chk")
    /\ UNCHANGED << sessVars, threadID, g >>

\* initData: m_data->waitForConsumer(CONSUMER_TIMEOUT), signaled
C_idWaitOk ==
    /\ c.pc = "id_wait"
    /\ hasEvents[c.is] /\ consEv[c.is]
    /\ consEv' = [consEv EXCEPT ![c.is] = FALSE]
    /\ CSet("id_chk")
    /\ UNCHANGED << status, isActive, prodEv, hasEvents, hasWorker, req, buf, ptr, mtx,
                    doc, mFileName, w, threadID, g >>

\* initData: m_data->waitForConsumer(CONSUMER_TIMEOUT), timed out or no event
C_idWaitTimeout ==
    /\ c.pc = "id_wait"
    /\ ~hasEvents[c.is] \/ (~consEv[c.is] /\ CONSUMER_TIMEOUT # INFINITE)
    /\ CSet("id_chk")
    /\ TimeoutLeft
    /\ g' = [g EXCEPT !.tmo = TimeoutsAfter]
    /\ UNCHANGED << sessVars, threadID >>

\* initData that refuses a cancelled request only
initDataSkips_cancelledOnly(st, field, unit) == st = cancelled

\* initData: the statuses in which initRequest is not called
initDataSkips(st, field, unit) ==
    LET cont == (unit > 0) /\ isStreaming(field) IN
    (st = cancelled) \/ (st = closed /\ cont) \/ (st = complete /\ cont)

\* initData: the status decides whether the request is initialised; extract
\* returns initData's ft_fieldempty, compare returns ft_compare_next
C_idCheck ==
    /\ c.pc = "id_chk"
    /\ IF initDataSkips(status[c.is], c.field, c.unit)
          THEN c' = Return(IF c.op = "compare" THEN ft_compare_next ELSE ft_fieldempty)
          ELSE CSet("id_init")
    /\ UNCHANGED << sessVars, threadID, g >>

\* initData: initRequest under the mutex; the caller then picks its path
C_idInit ==
    /\ c.pc = "id_init"
    /\ lock_guard(c.is)
    /\ initRequest(c.is, FileOf(c.is), c.field, c.unit, c.it)
    /\ LET r == initRequestResult(c.is, c.field, c.unit) IN
       c' = [c EXCEPT !.result = r, !.armed = TRUE, !.pPre = ptr[c.is],
                      !.pInit = ptr'[c.is],
                      !.pc = IF c.op = "compare"
                             THEN IF r # ft_setsuccess THEN "cmp_next"
                                  ELSE IF c.is = 1 THEN "cmp_search" ELSE "cmp_start1"
                             ELSE IF isStreaming(c.field)
                             THEN IF c.unit = 0 THEN "ex_arm"
                                  ELSE IF r = ft_setsuccess THEN "nw_call" ELSE "ex_copy"
                             ELSE "ex_arm",
                      !.ws = 1, !.wr = "ex_res",
                      !.wt = PRODUCER_TIMEOUT]
    /\ UNCHANGED << status, isActive, prodEv, consEv, hasEvents, hasWorker, mtx, doc,
                    mFileName, w, threadID, g >>

\* extract: setStatusCond(active, complete); startWorkerThread()
C_exArm ==
    /\ c.pc = "ex_arm"
    /\ status' = [status EXCEPT ![1] = setStatusCond(1, active, complete)]
    /\ \E ok \in BOOLEAN : start(1, ok)
    /\ c' = [c EXCEPT !.pc = IF threadID' # 0 THEN "nw_call"
                             ELSE IF isStreaming(c.field) THEN "ex_copy" ELSE "ex_copyv",
                      !.ws = 1, !.wr = "ex_res",
                      !.wt = IF isStreaming(c.field) THEN PRODUCER_TIMEOUT ELSE CONSUMER_TIMEOUT]
    /\ UNCHANGED << isActive, prodEv, consEv, req, buf, ptr, mtx, doc, mFileName >>

\* ThreadData::notifyProducerWaitForConsumer: the producer is signaled when the
\* thread is marked active and both events exist
C_nwCall ==
    /\ c.pc = "nw_call"
    /\ IF isActive[c.ws] /\ hasEvents[c.ws]
       THEN /\ prodEv' = [prodEv EXCEPT ![c.ws] = TRUE]
            /\ CSet("nw_wait")
       ELSE /\ c' = [c EXCEPT !.pc = c.wr, !.dw = WAIT_FAILED]
            /\ UNCHANGED prodEv
    /\ UNCHANGED << status, isActive, consEv, hasEvents, hasWorker, req, buf, ptr, mtx,
                    doc, mFileName, w, threadID, g >>

\* SignalObjectAndWait returns WAIT_OBJECT_0: the consumer event resets itself
C_nwSignaled ==
    /\ c.pc = "nw_wait"
    /\ consEv[c.ws]
    /\ consEv' = [consEv EXCEPT ![c.ws] = FALSE]
    /\ c' = [c EXCEPT !.pc = c.wr, !.dw = WAIT_OBJECT_0]
    /\ UNCHANGED << status, isActive, prodEv, hasEvents, hasWorker, req, buf, ptr, mtx,
                    doc, mFileName, w, threadID, g >>

\* SignalObjectAndWait returns WAIT_TIMEOUT
C_nwTimeout ==
    /\ c.pc = "nw_wait"
    /\ ~consEv[c.ws]
    /\ c.wt # INFINITE
    /\ c' = [c EXCEPT !.pc = "nw_reset", !.dw = WAIT_TIMEOUT]
    /\ TimeoutLeft
    /\ g' = [g EXCEPT !.tmo = TimeoutsAfter]
    /\ UNCHANGED << sessVars, threadID >>

\* notifyProducerWaitForConsumer: resetProducer() after an unsuccessful wait
C_nwReset ==
    /\ c.pc = "nw_reset"
    /\ prodEv' = [prodEv EXCEPT ![c.ws] = FALSE]
    /\ CSet(c.wr)
    /\ UNCHANGED << status, isActive, consEv, hasEvents, hasWorker, req, buf, ptr, mtx,
                    doc, mFileName, w, threadID, g >>

\* PDFExtractor::waitForConsumer: the wait result becomes the extraction result;
\* a failed wait cancels an active request
C_exRes ==
    /\ c.pc = "ex_res"
    /\ c' = [c EXCEPT !.pc = IF isStreaming(c.field) THEN "ex_copy" ELSE "ex_copyv",
                      !.result = IF c.dw = WAIT_OBJECT_0 THEN ft_setsuccess
                                 ELSE IF c.dw = WAIT_TIMEOUT THEN ft_timeout
                                 ELSE ft_fileerror]
    /\ status' = [status EXCEPT ![1] = IF c.dw \in {WAIT_OBJECT_0, WAIT_TIMEOUT}
                                       THEN @ ELSE setStatusCond(1, cancelled, active)]
    /\ UNCHANGED << isActive, prodEv, consEv, hasEvents, hasWorker, req, buf, ptr, mtx,
                    doc, mFileName, w, threadID, g >>

\* what the memory next to the buffer may hold
Outside == {NUL, 120}

\* the cell i of buffer b, or v when the cell lies outside the buffer
CellOrOutside(b, i, v) == IF i \in 1..Len(b) THEN b[i] ELSE v

\* extract, streaming field: the cells that memmove(src, src + dstSize -
\* sizeOfWchar, srcLeft + sizeOfWchar) reads and the cells it writes, for the
\* cursor at byte p (cell 1 is the first cell of the buffer)
memmoveCells(p, dstSize) ==
    LET dsz     == dstSize - (dstSize % 2)
        srcLeft == p - dsz + sizeOfWchar
        from    == (dsz - sizeOfWchar) \div sizeOfWchar
        cnt     == (srcLeft + sizeOfWchar) \div sizeOfWchar
    IN IF p # 0 /\ srcLeft > 0
       THEN [reads |-> { from + i : i \in 1..cnt }, writes |-> 1..cnt]
       ELSE [reads |-> {}, writes |-> {}]

\* the copy-out with a destination of at least sizeOfWchar bytes
copyOut_atLeastOneChar(s, dstSize) ==
    LET srcLen  == ptr[s]
        dsz     == IF dstSize < sizeOfWchar THEN sizeOfWchar ELSE dstSize - (dstSize % 2)
        srcLeft == srcLen - dsz + sizeOfWchar
        from    == (dsz - sizeOfWchar) \div sizeOfWchar
        cnt     == (srcLeft + sizeOfWchar) \div sizeOfWchar
    IN
    IF srcLen = 0
    THEN UNCHANGED << buf, ptr >>
    ELSE IF srcLeft > 0
    THEN /\ buf' = [buf EXCEPT ![s] = [i \in 1..BufCells |->
                        IF i <= cnt THEN buf[s][from + i] ELSE buf[s][i]]]
         /\ ptr' = [ptr EXCEPT ![s] = setRequestPtr(s, srcLeft)]
    ELSE /\ buf' = [buf EXCEPT ![s] = ZeroCells(@, 4)]
         /\ ptr' = [ptr EXCEPT ![s] = setRequestPtr(s, 0)]

\* extract, streaming field: what fits into dst is copied out, the rest is moved
\* to the buffer start and the cursor follows; a cell that memmove reads from
\* outside the buffer holds any value, what it writes outside is not followed
copyOut(s, dstSize) ==
    LET srcLen  == ptr[s]
        dsz     == dstSize - (dstSize % 2)
        srcLeft == srcLen - dsz + sizeOfWchar
        from    == (dsz - sizeOfWchar) \div sizeOfWchar
        cnt     == (srcLeft + sizeOfWchar) \div sizeOfWchar
    IN
    IF srcLen = 0
    THEN UNCHANGED << buf, ptr >>
    ELSE IF srcLeft > 0
    THEN \E v \in Outside :
         /\ buf' = [buf EXCEPT ![s] = [i \in 1..BufCells |->
                        IF i <= cnt THEN CellOrOutside(buf[s], from + i, v) ELSE buf[s][i]]]
         /\ ptr' = [ptr EXCEPT ![s] = setRequestPtr(s, srcLeft)]
    ELSE /\ buf' = [buf EXCEPT ![s] = ZeroCells(@, 4)]
         /\ ptr' = [ptr EXCEPT ![s] = setRequestPtr(s, 0)]

\* the result of a streaming extract that does not look at dst
streamResult_ignoreDst(result, hasDst) ==
    IF result \in {ft_timeout, ft_setsuccess} THEN ft_fulltextw ELSE result

\* extract, streaming field: the result after the wait, by dst
streamResult(result, hasDst) ==
    IF hasDst
    THEN IF result \in {ft_timeout, ft_setsuccess} THEN ft_fulltextw ELSE result
    ELSE ft_nosuchfield

C_exCopy ==
    /\ c.pc = "ex_copy"
    /\ IF c.hasDst /\ (c.result \in {ft_timeout, ft_setsuccess})
       THEN /\ lock_guard(1)
            /\ copyOut(1, c.dstSize)
       ELSE UNCHANGED << buf, ptr >>
    /\ c' = Return(streamResult(c.result, c.hasDst))
    /\ UNCHANGED << status, isActive, prodEv, consEv, hasEvents, hasWorker, req, mtx,
                    doc, mFileName, w, threadID, g >>

\* extract, other fields: a timeout is an empty field, a result is copied to dst
C_exCopyV ==
    /\ c.pc = "ex_copyv"
    /\ IF c.result = ft_timeout
       THEN /\ c' = Return(ft_fieldempty)
            /\ UNCHANGED << buf, ptr >>
       ELSE IF (c.result = ft_setsuccess) /\ c.hasDst
       THEN /\ lock_guard(1)
            /\ c' = Return(req[1].result)
            /\ IF req[1].result \in {ft_stringw, ft_fulltextw}
               THEN /\ buf' = [buf EXCEPT ![1] = ZeroCells(@, 4)]
                    /\ ptr' = [ptr EXCEPT ![1] = setRequestPtr(1, 0)]
               ELSE UNCHANGED << buf, ptr >>
       ELSE /\ c' = Return(c.result)
            /\ UNCHANGED << buf, ptr >>
    /\ UNCHANGED << status, isActive, prodEv, consEv, hasEvents, hasWorker, req, mtx,
                    doc, mFileName, w, threadID, g >>

\* initData returned ft_fieldempty after stop(): unit = -1
C_retEmpty ==
    /\ c.pc = "ret_empty"
    /\ c' = Return(ft_fieldempty)
    /\ UNCHANGED << sessVars, threadID, g >>

\* ContentSendStateInformationW / ContentStopGetValueW -> PDFExtractor::stop
C_stop ==
    /\ c.pc = "idle"
    /\ c.calls < MaxCalls
    /\ c' = [c EXCEPT !.pc = "stop_cas", !.op = "stop", !.calls = @ + 1, !.ws = 1,
                      !.sr = "stop_search", !.sr2 = "ret_void"]
    /\ g' = [g EXCEPT !.cancel = "none", !.tmo = 0, !.sidle = FALSE, !.sdoc = NoFile]
    /\ UNCHANGED << sessVars, threadID >>

\* ThreadData::stop: setStatusCond(cancelled, active); when the status read is
\* complete, g.sidle keeps whether the worker was at its idle point (until a
\* wait of that worker expires) and g.sdoc the document that was open
C_stopCas ==
    /\ c.pc = "stop_cas"
    /\ status' = [status EXCEPT ![c.ws] = setStatusCond(c.ws, cancelled, active)]
    /\ CSet(IF status[c.ws] \in {active, complete} THEN "stop_sig" ELSE c.sr)
    /\ g' = [g EXCEPT !.cancel = IF c.ws = 1 /\ status[1] = active THEN "req" ELSE @,
                      !.sidle = (status[c.ws] = complete) /\ (w[c.ws].pc = "wait"),
                      !.sdoc = IF status[c.ws] = complete THEN doc[c.ws] ELSE NoFile]
    /\ UNCHANGED << isActive, prodEv, consEv, hasEvents, hasWorker, req, buf, ptr, mtx,
                    doc, mFileName, w, threadID >>

\* ThreadData::stop: resetConsumer(); notifyProducerWaitForConsumer(CONSUMER_TIMEOUT)
C_stopSignal ==
    /\ c.pc = "stop_sig"
    /\ consEv' = [consEv EXCEPT ![c.ws] = FALSE]
    /\ IF isActive[c.ws] /\ hasEvents[c.ws]
       THEN /\ prodEv' = [prodEv EXCEPT ![c.ws] = TRUE]
            /\ c' = [c EXCEPT !.pc = "nw_wait", !.wr = c.sr, !.wt = CONSUMER_TIMEOUT]
       ELSE /\ c' = [c EXCEPT !.pc = c.sr, !.dw = WAIT_FAILED]
            /\ UNCHANGED prodEv
    /\ UNCHANGED << status, isActive, hasEvents, hasWorker, req, buf, ptr, mtx, doc,
                    mFileName, w, threadID, g >>

\* PDFExtractor::stop: if (m_search) m_search->stop()
C_stopSearch ==
    /\ c.pc = "stop_search"
    /\ IF c.search
       THEN c' = [c EXCEPT !.pc = "stop_cas", !.ws = 2, !.sr = c.sr2]
       ELSE CSet(c.sr2)
    /\ UNCHANGED << sessVars, threadID, g >>

C_retVoid ==
    /\ c.pc = "ret_void"
    /\ c' = [c EXCEPT !.pc = "idle", !.op = "none"]
    /\ UNCHANGED << sessVars, threadID, g >>

(* ---------------------------------------------------------------------- *)
(* PDFExtractor::compare                                                  *)
(* ---------------------------------------------------------------------- *)
\* the delimiters of compare: L" \r\n\b\f\t\v\x00a0\x202f\x2007\x2009\x2060"
delims == {32, 13, 10, 8, 12, 9, 11, 160, 8239, 8199, 8201, 8288}

\* PDFExtractor::removeDelimiters on the first cchStr cells of b: the cells
\* that are no delimiters move to the front, a NUL follows them when any cell
\* was dropped; the result is the buffer and the number of cells kept
removeDelimiters(b, cchStr) ==
    LET kept == SelectSeq(SubSeq(b, 1, cchStr), LAMBDA ch : ch \notin delims)
        i    == Len(kept)
    IN [buf |-> [k \in 1..Len(b) |->
                    IF k <= i THEN kept[k]
                    ELSE IF (k = i + 1) /\ (i # cchStr) THEN NUL
                    ELSE b[k]],
        len |-> i]

\* case folding of the collation, for the letters A..Z
ToLower(ch) == IF (ch >= 65) /\ (ch <= 90) THEN ch + 32 ELSE ch

\* wmemcmp(start1, start2, n) = 0
wmemEqual(b1, b2, n) == \A i \in 1..n : b1[i] = b2[i]

\* _wcsnicoll_l(start1, start2, n, locale) = 0
wcsnicollEqual(b1, b2, n) == \A i \in 1..n : ToLower(b1[i]) = ToLower(b2[i])

\* wmemmove(start, start + from, cnt)
wmemmove(b, from, cnt) ==
    [k \in 1..Len(b) |-> IF k <= cnt THEN b[from + k] ELSE b[k]]

\* compare, the part under both mutexes for buffers b1 and b2: the outcome of
\* the round, the buffers and cursors it leaves, the bytes it counts, and
\* whether it leaves the loop (brk)
compareRound(b1, b2, bytes, eqTxt) ==
    LET len1   == StrLen(b1)
        len2   == StrLen(b2)
        minLen == Min(len1, len2)
        binEq  == wmemEqual(b1, b2, minLen)
        x1     == removeDelimiters(b1, len1)
        x2     == removeDelimiters(b2, len2)
        minLenX == Min(x1.len, x2.len)
        stripped == (minLen > 0) /\ ~binEq
        txtEq  == wcsnicollEqual(x1.buf, x2.buf, minLenX)
        brk    == stripped /\ (minLenX > 0) /\ ~txtEq
        res    == IF minLen > 0
                  THEN IF binEq THEN ft_compare_eq
                       ELSE IF minLenX > 0
                            THEN IF txtEq THEN ft_compare_eq ELSE ft_compare_not_eq
                            ELSE IF x1.len = x2.len THEN ft_compare_eq
                                 ELSE ft_compare_not_eq
                  ELSE IF len1 = len2 THEN ft_compare_eq ELSE ft_compare_not_eq
        nb     == IF minLen > 0
                  THEN IF binEq THEN bytes + minLen
                       ELSE IF (minLenX > 0) /\ txtEq THEN bytes + minLenX ELSE bytes
                  ELSE IF len1 = len2 THEN 0 ELSE bytes
        nTxt   == eqTxt \/ (stripped /\ (res = ft_compare_eq))
        c1     == IF stripped THEN x1.buf ELSE b1
        c2     == IF stripped THEN x2.buf ELSE b2
        rest   == (res = ft_compare_eq) /\ (minLen > 0)
                    /\ ((len1 > minLen) \/ (len2 > minLen))
    IN [result |-> IF rest THEN ft_compare_not_eq ELSE res,
        buf1   |-> IF rest THEN wmemmove(c1, minLen, len1 - minLen) ELSE c1,
        buf2   |-> IF rest THEN wmemmove(c2, minLen, len2 - minLen) ELSE c2,
        pos1   |-> sizeOfWchar * (len1 - minLen),
        pos2   |-> sizeOfWchar * (len2 - minLen),
        bytes  |-> Min(nb, MaxBytes),
        eqTxt  |-> nTxt,
        brk    |-> brk,
        txt    |-> stripped /\ (res = ft_compare_eq),
        miss   |-> (minLen > 0) /\ (res = ft_compare_not_eq)]

\* ContentCompareFilesW -> PDFExtractor::compare(progresscallback, fileName1,
\* fileName2, field): initData for the first file
C_compare(in) ==
    /\ c.pc = "idle"
    /\ c.calls < MaxCompares
    /\ c' = [c EXCEPT !.pc = "id_begin", !.op = "compare", !.calls = @ + 1,
                      !.file = in.file1, !.file2 = in.file2, !.field = in.field,
                      !.unit = 0, !.hasDst = FALSE, !.dstSize = 0,
                      !.is = 1, !.it = CONSUMER_TIMEOUT,
                      !.bytes = 0, !.eqTxt = FALSE, !.r1 = 0,
                      !.armed = FALSE, !.pPre = 0, !.pInit = 0]
    /\ g' = [g EXCEPT !.cancel = "none", !.tmo = 0, !.sidle = FALSE, !.sdoc = NoFile,
                      !.inactive = FALSE,
                      !.empty = FALSE, !.userAbort = FALSE,
                      !.txt = FALSE, !.miss = FALSE, !.pre = 0,
                      !.done = [s \in S |-> FALSE]]
    /\ UNCHANGED << sessVars, threadID >>

\* compare: initData did not return ft_setsuccess
C_cmpNext ==
    /\ c.pc = "cmp_next"
    /\ c' = Return(ft_compare_next)
    /\ UNCHANGED << sessVars, threadID, g >>

\* compare: m_search is created if it is missing; initData for the second file
C_cmpSearch ==
    /\ c.pc = "cmp_search"
    /\ c' = [c EXCEPT !.search = TRUE, !.is = 2, !.pc = "id_begin"]
    /\ UNCHANGED << sessVars, threadID, g >>

\* compare: startWorkerThread(); without a thread compare returns the result
\* of initData
C_cmpStart1 ==
    /\ c.pc = "cmp_start1"
    /\ \E ok \in BOOLEAN : start(1, ok)
    /\ c' = IF threadID' # 0 THEN [c EXCEPT !.pc = "cmp_start2"] ELSE Return(c.result)
    /\ UNCHANGED << status, isActive, prodEv, consEv, req, buf, ptr, mtx, doc, mFileName >>

\* compare: m_search->startWorkerThread()
C_cmpStart2 ==
    /\ c.pc = "cmp_start2"
    /\ \E ok \in BOOLEAN : start(2, ok)
    /\ c' = IF threadID' # 0 THEN [c EXCEPT !.pc = "cmp_arm1"] ELSE Return(c.result)
    /\ UNCHANGED << status, isActive, prodEv, consEv, req, buf, ptr, mtx, doc, mFileName >>

\* compare: m_data->setStatusCond(active, complete)
C_cmpArm1 ==
    /\ c.pc = "cmp_arm1"
    /\ status' = [status EXCEPT ![1] = setStatusCond(1, active, complete)]
    /\ CSet("cmp_arm2")
    /\ UNCHANGED << isActive, prodEv, consEv, hasEvents, hasWorker, req, buf, ptr, mtx,
                    doc, mFileName, w, threadID, g >>

\* compare: m_search->m_data->setStatusCond(active, complete)
C_cmpArm2 ==
    /\ c.pc = "cmp_arm2"
    /\ status' = [status EXCEPT ![2] = setStatusCond(2, active, complete)]
    /\ CSet("cmp_round")
    /\ UNCHANGED << isActive, prodEv, consEv, hasEvents, hasWorker, req, buf, ptr, mtx,
                    doc, mFileName, w, threadID, g >>

\* compareWaitForConsumers: both threads must be marked active and have their
\* events, else the result is ft_fileerror; notifyProducer()
C_cwNotify1 ==
    /\ c.pc = "cmp_round"
    /\ IF isActive[1] /\ hasEvents[1] /\ isActive[2] /\ hasEvents[2]
       THEN /\ prodEv' = [prodEv EXCEPT ![1] = TRUE]
            /\ CSet("cw_ntf2")
            /\ UNCHANGED g
       ELSE /\ c' = [c EXCEPT !.pc = "cmp_res", !.result = ft_fileerror]
            /\ g' = [g EXCEPT !.inactive = TRUE]
            /\ UNCHANGED prodEv
    /\ UNCHANGED << status, isActive, consEv, hasEvents, hasWorker, req, buf, ptr, mtx,
                    doc, mFileName, w, threadID >>

\* compareWaitForConsumers: searcher->notifyProducer()
C_cwNotify2 ==
    /\ c.pc = "cw_ntf2"
    /\ prodEv' = [prodEv EXCEPT ![2] = TRUE]
    /\ CSet("cw_wait")
    /\ UNCHANGED << status, isActive, consEv, hasEvents, hasWorker, req, buf, ptr, mtx,
                    doc, mFileName, w, threadID, g >>

\* compareWaitForConsumers: WaitForMultipleObjects on both consumer events
\* returns when both are signaled, and resets both
C_cwSignaled ==
    /\ c.pc = "cw_wait"
    /\ consEv[1] /\ consEv[2]
    /\ consEv' = [s \in S |-> FALSE]
    /\ CSet("cw_read1")
    /\ UNCHANGED << status, isActive, prodEv, hasEvents, hasWorker, req, buf, ptr, mtx,
                    doc, mFileName, w, threadID, g >>

\* compareWaitForConsumers: WAIT_TIMEOUT, the result is ft_compare_abort
C_cwTimeout(timeout) ==
    /\ c.pc = "cw_wait"
    /\ ~(consEv[1] /\ consEv[2])
    /\ timeout # INFINITE
    /\ TimeoutLeft
    /\ c' = [c EXCEPT !.pc = "cmp_res", !.result = ft_compare_abort]
    /\ g' = [g EXCEPT !.tmo = TimeoutsAfter]
    /\ UNCHANGED << sessVars, threadID >>

\* compareWaitForConsumers: result1 = request.result under the mutex
C_cwRead1 ==
    /\ c.pc = "cw_read1"
    /\ mtx[1] = "free"
    /\ c' = [c EXCEPT !.pc = "cw_read2", !.r1 = req[1].result]
    /\ UNCHANGED << sessVars, threadID, g >>

\* compareWaitForConsumers: result2 under the searcher's mutex; equal results
\* are the result, different ones are ft_compare_not_eq
C_cwRead2 ==
    /\ c.pc = "cw_read2"
    /\ mtx[2] = "free"
    /\ c' = [c EXCEPT !.pc = "cmp_res",
                      !.result = IF c.r1 = req[2].result THEN c.r1 ELSE ft_compare_not_eq]
    /\ g' = [g EXCEPT !.empty = (c.r1 = ft_fieldempty) /\ (req[2].result = ft_fieldempty)]
    /\ UNCHANGED << sessVars, threadID >>

\* a round that extracted nothing returned as it is
emptyOutcome_asIs(result) == result

\* the outcome of compare for a round that extracted nothing: two empty
\* fields are equal, anything else is returned as it is
emptyOutcome(result) == IF result = ft_fieldempty THEN ft_compare_eq ELSE result

\* a try_lock that takes the mutex whoever holds it
try_lock_always(s) == TRUE

\* std::mutex::try_lock: succeeds when the mutex is not held
try_lock(s) == mtx[s] = "free"

\* std::scoped_lock of both mutexes, first half: a positive result makes
\* compare lock one mutex, m_data's first, and wait for it if it is held
C_cmpLock ==
    /\ c.pc = "cmp_res"
    /\ c.result > 0
    /\ mtx[c.first] = "free"
    /\ mtx' = [mtx EXCEPT ![c.first] = "c"]
    /\ CSet("cmp_try")
    /\ UNCHANGED << status, isActive, prodEv, consEv, hasEvents, hasWorker, req, buf,
                    ptr, doc, mFileName, w, threadID, g >>

\* std::scoped_lock, second half: the other mutex is tried; when it is held
\* the first is released again and the locking starts over with the other
C_cmpTryLock ==
    /\ c.pc = "cmp_try"
    /\ LET other == 3 - c.first IN
       IF try_lock(other)
       THEN /\ mtx' = [mtx EXCEPT ![other] = "c"]
            /\ c' = [c EXCEPT !.pc = "cmp_locked", !.first = 1]
       ELSE /\ mtx' = [mtx EXCEPT ![c.first] = "free"]
            /\ c' = [c EXCEPT !.pc = "cmp_res", !.first = other]
    /\ UNCHANGED << status, isActive, prodEv, consEv, hasEvents, hasWorker, req, buf,
                    ptr, doc, mFileName, w, threadID, g >>

\* compare: a positive result is compared under both mutexes, which are
\* released after the cursors are set; otherwise the loop is left
C_cmpResult ==
    /\ \/ c.pc = "cmp_locked"
       \/ c.pc = "cmp_res" /\ c.result <= 0
    /\ IF c.pc = "cmp_locked"
       THEN /\ mtx' = [s \in S |-> "free"]
            /\ LET r == compareRound(buf[1], buf[2], c.bytes, c.eqTxt) IN
               /\ buf' = [buf EXCEPT ![1] = r.buf1, ![2] = r.buf2]
               /\ ptr' = IF r.brk THEN ptr
                         ELSE [ptr EXCEPT ![1] = setRequestPtr(1, r.pos1),
                                          ![2] = setRequestPtr(2, r.pos2)]
               /\ c' = [c EXCEPT !.result = r.result, !.bytes = r.bytes,
                                 !.eqTxt = r.eqTxt,
                                 !.pc = IF r.brk THEN "cmp_end" ELSE "cmp_progress"]
               /\ g' = [g EXCEPT !.txt = @ \/ r.txt, !.miss = @ \/ r.miss]
       ELSE /\ c' = [c EXCEPT !.result = emptyOutcome(c.result), !.pc = "cmp_end"]
            /\ UNCHANGED << buf, ptr, mtx, g >>
    /\ UNCHANGED << status, isActive, prodEv, consEv, hasEvents, hasWorker, req,
                    doc, mFileName, w, threadID >>

\* compare: after PRODUCER_TIMEOUT the progress callback is told the bytes
\* processed; the user may abort
C_cmpProgress ==
    /\ c.pc = "cmp_progress"
    /\ \E called \in BOOLEAN, userAbort \in BOOLEAN :
           /\ c' = IF called /\ userAbort
                   THEN [c EXCEPT !.result = ft_compare_abort, !.pc = "cmp_end"]
                   ELSE IF called
                   THEN [c EXCEPT !.bytes = 0, !.pc = "cmp_cond"]
                   ELSE [c EXCEPT !.pc = "cmp_cond"]
           /\ g' = [g EXCEPT !.userAbort = called /\ userAbort]
    /\ UNCHANGED << sessVars, threadID >>

\* compare: the loop goes on while both requests are active
C_cmpCond ==
    /\ c.pc = "cmp_cond"
    /\ CSet(IF status[1] = active /\ status[2] = active THEN "cmp_round" ELSE "cmp_end")
    /\ UNCHANGED << sessVars, threadID, g >>

\* compare: an equal outcome that was once reached as text is equal-as-text;
\* PDFExtractor::done begins with m_data->done()
C_cmpEnd ==
    /\ c.pc = "cmp_end"
    /\ c' = [c EXCEPT !.result = IF (c.result = ft_compare_eq) /\ c.eqTxt
                                 THEN ft_compare_eq_txt ELSE @,
                      !.pc = "done_cas", !.ws = 1, !.sr = "done_search"]
    /\ g' = [g EXCEPT !.pre = c.result]
    /\ UNCHANGED << sessVars, threadID >>

\* ThreadData::done: setStatusCond(complete, active)
C_doneCas ==
    /\ c.pc = "done_cas"
    /\ status' = [status EXCEPT ![c.ws] = setStatusCond(c.ws, complete, active)]
    /\ CSet(IF status[c.ws] = active THEN "stop_sig" ELSE c.sr)
    /\ g' = [g EXCEPT !.done[c.ws] = TRUE]
    /\ UNCHANGED << isActive, prodEv, consEv, hasEvents, hasWorker, req, buf, ptr, mtx,
                    doc, mFileName, w, threadID >>

\* PDFExtractor::done: if (m_search) m_search->done()
C_doneSearch ==
    /\ c.pc = "done_search"
    /\ IF c.search /\ c.ws = 1
       THEN c' = [c EXCEPT !.pc = "done_cas", !.ws = 2]
       ELSE CSet("cmp_ret")
    /\ UNCHANGED << sessVars, threadID, g >>

\* compare returns its result
C_cmpReturn ==
    /\ c.pc = "cmp_ret"
    /\ c' = Return(c.result)
    /\ UNCHANGED << sessVars, threadID, g >>

\* ContentPluginUnloading / destroy() -> PDFExtractor::abort -> ThreadData::abort
C_abort ==
    /\ c.pc = "idle"
    /\ c' = [c EXCEPT !.pc = "ab_active", !.op = "abort"]
    /\ g' = [g EXCEPT !.cancel = "none", !.tmo = 0, !.sidle = FALSE, !.sdoc = NoFile]
    /\ UNCHANGED << sessVars, threadID >>

\* abort: setActive(false); a thread that was not active is not waited for
C_abActive ==
    /\ c.pc = "ab_active"
    /\ isActive' = [isActive EXCEPT ![1] = FALSE]
    /\ IF isActive[1]
       THEN /\ CSet("ab_status")
            /\ UNCHANGED hasWorker
       ELSE /\ hasWorker' = [hasWorker EXCEPT ![1] = FALSE]
            /\ CSet("aborted")
    /\ UNCHANGED << status, prodEv, consEv, hasEvents, req, buf, ptr, mtx, doc,
                    mFileName, w, threadID, g >>

\* abort: setStatus(requestStatus::cancelled), an unconditional write
C_abStatus ==
    /\ c.pc = "ab_status"
    /\ status' = [status EXCEPT ![1] = cancelled]
    /\ CSet("ab_name")
    /\ UNCHANGED << isActive, prodEv, consEv, hasEvents, hasWorker, req, buf, ptr, mtx,
                    doc, mFileName, w, threadID, g >>

\* abort: request.fileName = nullptr under the mutex
C_abName ==
    /\ c.pc = "ab_name"
    /\ mtx[1] = "free"
    /\ req' = [req EXCEPT ![1].fileName = NoFile]
    /\ CSet("ab_notify")
    /\ UNCHANGED << status, isActive, prodEv, consEv, hasEvents, hasWorker, buf, ptr,
                    mtx, doc, mFileName, w, threadID, g >>

\* ThreadData::notifyProducerAndWait(PRODUCER_TIMEOUT): signal the producer and
\* wait on the worker thread handle
C_abNotify ==
    /\ c.pc = "ab_notify"
    /\ IF hasEvents[1] /\ hasWorker[1]
       THEN /\ prodEv' = [prodEv EXCEPT ![1] = TRUE]
            /\ CSet("ab_wait")
       ELSE /\ CSet("ab_close")
            /\ UNCHANGED prodEv
    /\ UNCHANGED << status, isActive, consEv, hasEvents, hasWorker, req, buf, ptr, mtx,
                    doc, mFileName, w, threadID, g >>

\* the worker thread has exited: its handle is signaled
C_abExited ==
    /\ c.pc = "ab_wait"
    /\ w[1].pc = "exited"
    /\ CSet("ab_close")
    /\ UNCHANGED << sessVars, threadID, g >>

\* the worker thread did not exit within the timeout of abort's wait
C_abTimeout(timeout) ==
    /\ c.pc = "ab_wait"
    /\ w[1].pc # "exited"
    /\ timeout # INFINITE
    /\ CSet("ab_close")
    /\ UNCHANGED << sessVars, threadID, g >>

\* abort: resetConsumer(); closeWorker()
C_abClose ==
    /\ c.pc = "ab_close"
    /\ consEv' = [consEv EXCEPT ![1] = FALSE]
    /\ hasWorker' = [hasWorker EXCEPT ![1] = FALSE]
    /\ CSet("aborted")
    /\ UNCHANGED << status, isActive, prodEv, hasEvents, req, buf, ptr, mtx, doc,
                    mFileName, w, threadID, g >>

\* ThreadData::abort as the host sees it: the steps above, with the timeout of
\* the wait for the worker's exit
abort ==
    \/ C_abActive \/ C_abStatus \/ C_abName \/ C_abNotify \/ C_abExited
    \/ C_abTimeout(PRODUCER_TIMEOUT) \/ C_abClose

\* destroy(): after abort() the extractor, its events and its buffer are deleted
C_delete ==
    /\ c.pc = "aborted"
    /\ ~destroyed
    /\ destroyed' = TRUE
    /\ hasEvents' = [hasEvents EXCEPT ![1] = FALSE]
    /\ UNCHANGED << status, isActive, prodEv, consEv, hasWorker, req, buf, ptr, mtx,
                    doc, mFileName, w, threadID, c, g, docs, noCache >>

(* ---------------------------------------------------------------------- *)
(* Specification of one session: extract, stop, abort, destroy            *)
(* ---------------------------------------------------------------------- *)
\* a page one character longer than the buffer can hold
LongPage == [i \in 1..BufCells |-> 97]

\* file 1: one page that overflows the buffer; file 2: one short page;
\* file 3: cannot be opened
SpecDocs ==
    [f \in Files \cup {OtherCase} |->
        IF towlower(f) = 1 THEN [ok |-> TRUE, pages |-> << LongPage >>]
        ELSE IF f = 2 THEN [ok |-> TRUE, pages |-> << << 98 >> >>]
        ELSE [ok |-> FALSE, pages |-> << >>]]

\* the requests the host makes
ExtractInputs ==
    { [file |-> 1, field |-> fiText, unit |-> u, hasDst |-> TRUE, dstSize |-> 4] :
          u \in {-1, 0, 1} }
    \cup { [file |-> 1, field |-> fiText, unit |-> 0, hasDst |-> FALSE, dstSize |-> 0],
           [file |-> 2, field |-> fiText, unit |-> 0, hasDst |-> TRUE, dstSize |-> 4],
           [file |-> 2, field |-> fiNumberOfPages, unit |-> 0, hasDst |-> TRUE,
            dstSize |-> REQUEST_BUFFER_SIZE],
           [file |-> 3, field |-> fiNumberOfPages, unit |-> 0, hasDst |-> TRUE,
            dstSize |-> REQUEST_BUFFER_SIZE],
           [file |-> 3, field |-> fiText, unit |-> 0, hasDst |-> TRUE, dstSize |-> 4],
           [file |-> OtherCase, field |-> fiNumberOfPages, unit |-> 0, hasDst |-> TRUE,
            dstSize |-> REQUEST_BUFFER_SIZE] }

InitRequest == [fileName |-> NoFile, field |-> fiTitle, unit |-> 0,
                timeout |-> PRODUCER_TIMEOUT, result |-> 0]

InitConsumer == [pc |-> "idle", op |-> "none", calls |-> 0, file |-> NoFile,
                 field |-> fiTitle, unit |-> 0, hasDst |-> FALSE, dstSize |-> 0,
                 result |-> 0, dw |-> WAIT_FAILED, ws |-> 1, wt |-> PRODUCER_TIMEOUT,
                 wr |-> "idle", sr |-> "idle", sr2 |-> "idle", is |-> 1,
                 it |-> PRODUCER_TIMEOUT, file2 |-> NoFile, search |-> FALSE,
                 r1 |-> 0, bytes |-> 0, eqTxt |-> FALSE, armed |-> FALSE, pPre |-> 0, pInit |-> 0,
                 first |-> 1]

InitSessions ==
    /\ status = [s \in S |-> closed]
    /\ isActive = [s \in S |-> FALSE]
    /\ prodEv = [s \in S |-> FALSE]
    /\ consEv = [s \in S |-> FALSE]
    /\ hasEvents = [s \in S |-> FALSE]
    /\ hasWorker = [s \in S |-> FALSE]
    /\ req = [s \in S |-> InitRequest]
    /\ buf = [s \in S |-> ZeroBuffer]
    /\ ptr = [s \in S |-> 0]
    /\ mtx = [s \in S |-> "free"]
    /\ doc = [s \in S |-> NoFile]
    /\ mFileName = [s \in S |-> NoFile]
    /\ w = [t \in Threads |-> InitWorker]
    /\ threadID = 0
    /\ destroyed = FALSE
    /\ g = [created |-> [s \in S |-> 0], reused |-> [s \in S |-> 0], cancel |-> "none",
            tmo |-> 0, inactive |-> FALSE, empty |-> FALSE, userAbort |-> FALSE,
            txt |-> FALSE, miss |-> FALSE, pre |-> 0, done |-> [s \in S |-> FALSE],
            sidle |-> FALSE, sdoc |-> NoFile]

Init ==
    /\ InitSessions
    /\ c = InitConsumer
    /\ docs = SpecDocs
    /\ noCache \in BOOLEAN

\* the history of a cancellation: requested by stop(), seen by a wake of the
\* worker, acknowledged when that wake cycle has notified the consumer
CancelAfter(s) ==
    IF s # 1 THEN g.cancel
    ELSE IF g.cancel = "req" /\ w[1].pc \in {"wait", "out_wait"} /\ prodEv[1] /\ ~prodEv'[1]
    THEN "seen"
    ELSE IF g.cancel = "seen" /\ w[1].pc = "fin_ntf"
    THEN "acked"
    ELSE g.cancel

\* the step the worker thread s can take is the expiry of its wait
WaitExpires(s) == (w[s].pc \in {"wait", "out_wait"}) /\ ~prodEv[SessOf(s)]

\* a step of the worker thread of session s; a destroyed extractor has no
\* thread step left that the model follows
WorkerStep(s, A) ==
    /\ ~destroyed
    /\ WaitExpires(s) => TimeoutLeft
    /\ A
    /\ g' = [g EXCEPT !.cancel = CancelAfter(s),
                      !.tmo = IF WaitExpires(s) THEN TimeoutsAfter ELSE @,
                      !.sidle = IF WaitExpires(s) /\ (s = c.ws) THEN FALSE ELSE @]
    /\ UNCHANGED << threadID, c, docs, noCache, destroyed >>

\* a step of the host's thread inside a call of the plugin
HostStep(A) == A /\ UNCHANGED << docs, noCache, destroyed >>

Next ==
    \/ \E in \in ExtractInputs : HostStep(C_extract(in))
    \/ HostStep(C_idBegin)
    \/ HostStep(C_idWaitOk)
    \/ HostStep(C_idWaitTimeout)
    \/ HostStep(C_idCheck)
    \/ HostStep(C_idInit)
    \/ HostStep(C_exArm)
    \/ HostStep(C_nwCall)
    \/ HostStep(C_nwSignaled)
    \/ HostStep(C_nwTimeout)
    \/ HostStep(C_nwReset)
    \/ HostStep(C_exRes)
    \/ HostStep(C_exCopy)
    \/ HostStep(C_exCopyV)
    \/ HostStep(C_retEmpty)
    \/ HostStep(C_stop)
    \/ HostStep(C_stopCas)
    \/ HostStep(C_stopSignal)
    \/ HostStep(C_stopSearch)
    \/ HostStep(C_retVoid)
    \/ HostStep(C_abort)
    \/ HostStep(C_abActive)
    \/ HostStep(C_abStatus)
    \/ HostStep(C_abName)
    \/ HostStep(C_abNotify)
    \/ HostStep(C_abExited)
    \/ HostStep(C_abTimeout(PRODUCER_TIMEOUT))
    \/ HostStep(C_abClose)
    \/ C_delete
    \/ WorkerStep(1, W_setActive(1))
    \/ WorkerStep(1, W_loop(1))
    \/ WorkerStep(1, W_signaled(1))
    \/ WorkerStep(1, W_timeout(1))
    \/ WorkerStep(1, W_idleClose(1))
    \/ WorkerStep(1, W_openRead(1))
    \/ WorkerStep(1, W_openDecide(1))
    \/ WorkerStep(1, W_openSetActive(1))
    \/ WorkerStep(1, W_openMake(1))
    \/ WorkerStep(1, W_openErr(1))
    \/ WorkerStep(1, W_doWork(1))
    \/ WorkerStep(1, W_setValue(1))
    \/ WorkerStep(1, W_page(1))
    \/ WorkerStep(1, W_outLock(1))
    \/ WorkerStep(1, W_outBody(1))
    \/ WorkerStep(1, W_outNext(1))
    \/ WorkerStep(1, W_outSignaled(1))
    \/ WorkerStep(1, W_outTimeout(1))
    \/ WorkerStep(1, W_outFull(1))
    \/ WorkerStep(1, W_outNotify(1))
    \/ WorkerStep(1, W_fin1(1))
    \/ WorkerStep(1, W_fin2(1))
    \/ WorkerStep(1, W_finClose(1))
    \/ WorkerStep(1, W_finNotify(1))
    \/ WorkerStep(1, W_exit(1))

Spec == Init /\ [][Next]_vars

(* ---------------------------------------------------------------------- *)
(* Properties of one session                                              *)
(* ---------------------------------------------------------------------- *)

\* C1: after stop() has cancelled an active session, the wake cycle of the
\* worker that stop()'s signal begins ends with the status closed and the
\* document absent; the cancellation is not overwritten on the way.
C1_CancellationConverges ==
    (g.cancel = "acked") => (status[1] = closed /\ doc[1] = NoFile)

\* C2: a session with no abort() never has a second worker thread created,
\* however often start() is called.
C2_SingleWorker == g.created[1] <= 1

\* a second start() has found the handle of the running worker
C2_SecondStartReuses == g.reused[1] >= 1 /\ g.created[1] = 1

\* C4 as stated: once a streaming request with unit = 0 has returned, it has
\* initialised the request with the cursor at the buffer begin, and a unit > 0
\* request that initialised the request has left the cursor where it was.
C4_RewindAlways ==
    (c.pc = "idle" /\ c.op = "none" /\ isStreaming(c.field))
        => /\ (c.unit = 0) => (c.armed /\ c.pInit = 0)
           /\ (c.unit > 0 /\ c.armed) => (c.pInit = c.pPre)

\* C4 as the code has it: a request that is initialised rewinds the cursor
\* unless it continues a streaming field with unit > 0; a streaming unit = 0
\* request that finds the session still cancelled after its stop() is not
\* initialised and returns ft_fieldempty.
C4_RewindWhenInitialised ==
    /\ c.armed => (IF isStreaming(c.field) /\ c.unit > 0
                   THEN c.pInit = c.pPre ELSE c.pInit = 0)
    /\ (c.pc = "idle" /\ c.op = "none" /\ isStreaming(c.field) /\ c.unit = 0 /\ ~c.armed)
          => (c.result = ft_fieldempty)

\* a continuation request has been initialised over unconsumed data
C4_ContinuationOverData ==
    c.armed /\ isStreaming(c.field) /\ c.unit > 0 /\ c.pPre > 0

\* C5: when the extractor has been deleted after abort(), the worker thread has
\* exited (or was never created).
C5_NoWorkerAfterDestroy == destroyed => (w[1].pc \in {"none", "exited"})

(* ---------------------------------------------------------------------- *)
(* Progress                                                               *)
(* ---------------------------------------------------------------------- *)
\* the steps the host's thread takes inside a call it has made; whether and
\* when the host makes a call is up to the host
HostInCall ==
    HostStep(\/ C_idBegin \/ C_idWaitOk \/ C_idWaitTimeout \/ C_idCheck \/ C_idInit
             \/ C_exArm \/ C_nwCall \/ C_nwSignaled \/ C_nwTimeout \/ C_nwReset
             \/ C_exRes \/ C_exCopy \/ C_exCopyV \/ C_retEmpty
             \/ C_stopCas \/ C_stopSignal \/ C_stopSearch \/ C_retVoid
             \/ abort)

\* the host's thread is scheduled; the worker is only known to leave the
\* critical section of output(), it may stay in open() or in a dispatch forever
LiveSpecHang ==
    /\ Init /\ [][Next]_vars
    /\ WF_vars(HostInCall)
    /\ WF_vars(WorkerStep(1, W_outBody(1)))

\* both threads are scheduled
LiveSpec ==
    /\ Init /\ [][Next]_vars
    /\ WF_vars(HostInCall)
    /\ WF_vars(WorkerStep(1, Worker(1)))

\* C6: the host's thread waits on an event only with a finite timeout, and
\* every extract() call returns, also when the worker never returns from a
\* dispatch.
C6_ExtractReturns ==
    /\ [](/\ (c.pc = "nw_wait") => (c.wt # INFINITE)
          /\ (c.pc = "id_wait") => (CONSUMER_TIMEOUT # INFINITE))
    /\ (c.op = "extract") ~> (c.op = "none")

\* the host waits for the result of a non-streaming request while the worker
\* is inside the dispatch
C6_WaitingOnDispatch ==
    c.op = "extract" /\ c.pc = "nw_wait" /\ ~isStreaming(c.field) /\ w[1].pc = "val"

\* C7: a worker that waits without timeout has closed the document and
\* cleared the remembered path, the status being closed unless abort() has set
\* it since; and when the host makes no more calls the document is eventually
\* absent for good.
C7_IdleClose ==
    /\ []((w[1].pc = "wait" /\ w[1].timeout = INFINITE)
            => /\ doc[1] = NoFile /\ mFileName[1] = NoFile
               /\ (c.op # "abort" => status[1] = closed))
    /\ (<>[](c.pc = "idle")) => <>[](doc[1] = NoFile)

\* the worker waits without timeout after it has delivered a page count
C7_IdleAfterRequest ==
    /\ w[1].pc = "wait" /\ w[1].timeout = INFINITE
    /\ req[1].result = ft_numeric_32 /\ c.pc = "idle"

(* ---------------------------------------------------------------------- *)
(* Specification of compare: two sessions                                 *)
(* ---------------------------------------------------------------------- *)
\* a text one character longer than one buffer load
LongText == [i \in 1..BufCells |-> IF i % 2 = 1 THEN 97 ELSE 98]

\* file 1: a text of two buffer loads; file 2: "ab "; file 3: "ab";
\* file 4: no text; file 5: cannot be opened; file 6: one buffer load of
\* spaces, then the last character of file 1; file 8: the first buffer load
\* of file 1 and no more; files 9 and 10: 9 and 10 pages without text
CmpFiles == (1..6) \cup {8, 9, 10}

CmpDocs ==
    [f \in CmpFiles |->
        IF f = 1 THEN [ok |-> TRUE, pages |-> << LongText >>]
        ELSE IF f = 2 THEN [ok |-> TRUE, pages |-> << << 97, 98, 32 >> >>]
        ELSE IF f = 3 THEN [ok |-> TRUE, pages |-> << << 97, 98 >> >>]
        ELSE IF f = 4 THEN [ok |-> TRUE, pages |-> << >>]
        ELSE IF f = 5 THEN [ok |-> FALSE, pages |-> << >>]
        ELSE IF f = 8 THEN [ok |-> TRUE, pages |-> << SubSeq(LongText, 1, BufCells - 1) >>]
        ELSE IF f \in {9, 10} THEN [ok |-> TRUE, pages |-> [i \in 1..f |-> << >>]]
        ELSE [ok |-> TRUE,
              pages |-> << [i \in 1..BufCells |-> IF i < BufCells THEN 32 ELSE LongText[i]] >>]]

\* the text of a file
RECURSIVE Concat(_)
Concat(ps) == IF ps = << >> THEN << >> ELSE Head(ps) \o Concat(Tail(ps))

TextOf(f) == Concat(docs[f].pages)

CompareInputs ==
    { [file1 |-> 1, file2 |-> 1, field |-> fiText],
      [file1 |-> 2, file2 |-> 3, field |-> fiText],
      [file1 |-> 3, file2 |-> 2, field |-> fiText],
      [file1 |-> 4, file2 |-> 4, field |-> fiText],
      [file1 |-> 6, file2 |-> 1, field |-> fiText],
      [file1 |-> 8, file2 |-> 1, field |-> fiText],
      [file1 |-> 3, file2 |-> 3, field |-> fiNumberOfPages],
      [file1 |-> 9, file2 |-> 10, field |-> fiNumberOfPages],
      [file1 |-> 3, file2 |-> 5, field |-> fiNumberOfPages] }

InitCmp ==
    /\ InitSessions
    /\ c = InitConsumer
    /\ docs = CmpDocs
    /\ noCache = FALSE

\* one compare() on a new extractor with the cache option on: initData finds
\* no cancelled request to wait for, and the worker keeps its document
NextCmp ==
    \/ \E in \in CompareInputs : HostStep(C_compare(in))
    \/ HostStep(C_idBegin)
    \/ HostStep(C_idCheck)
    \/ HostStep(C_idInit)
    \/ HostStep(C_stopCas)
    \/ HostStep(C_stopSignal)
    \/ HostStep(C_stopSearch)
    \/ HostStep(C_nwSignaled)
    \/ HostStep(C_nwTimeout)
    \/ HostStep(C_nwReset)
    \/ HostStep(C_cmpSearch)
    \/ HostStep(C_cmpStart1)
    \/ HostStep(C_cmpStart2)
    \/ HostStep(C_cmpArm1)
    \/ HostStep(C_cmpArm2)
    \/ HostStep(C_cwNotify1)
    \/ HostStep(C_cwNotify2)
    \/ HostStep(C_cwSignaled)
    \/ HostStep(C_cwTimeout(CONSUMER_TIMEOUT))
    \/ HostStep(C_cwRead1)
    \/ HostStep(C_cwRead2)
    \/ HostStep(C_cmpLock)
    \/ HostStep(C_cmpTryLock)
    \/ HostStep(C_cmpResult)
    \/ HostStep(C_cmpProgress)
    \/ HostStep(C_cmpCond)
    \/ HostStep(C_cmpEnd)
    \/ HostStep(C_doneCas)
    \/ HostStep(C_doneSearch)
    \/ HostStep(C_cmpReturn)
    \/ \E s \in S : WorkerStep(s, W_setActive(s))
    \/ \E s \in S : WorkerStep(s, W_loop(s))
    \/ \E s \in S : WorkerStep(s, W_signaled(s))
    \/ \E s \in S : WorkerStep(s, W_timeout(s))
    \/ \E s \in S : WorkerStep(s, W_idleClose(s))
    \/ \E s \in S : WorkerStep(s, W_openRead(s))
    \/ \E s \in S : WorkerStep(s, W_openDecide(s))
    \/ \E s \in S : WorkerStep(s, W_openSetActive(s))
    \/ \E s \in S : WorkerStep(s, W_openMake(s))
    \/ \E s \in S : WorkerStep(s, W_openErr(s))
    \/ \E s \in S : WorkerStep(s, W_doWork(s))
    \/ \E s \in S : WorkerStep(s, W_setValue(s))
    \/ \E s \in S : WorkerStep(s, W_page(s))
    \/ \E s \in S : WorkerStep(s, W_outLock(s))
    \/ \E s \in S : WorkerStep(s, W_outBody(s))
    \/ \E s \in S : WorkerStep(s, W_outNext(s))
    \/ \E s \in S : WorkerStep(s, W_outSignaled(s))
    \/ \E s \in S : WorkerStep(s, W_outTimeout(s))
    \/ \E s \in S : WorkerStep(s, W_outFull(s))
    \/ \E s \in S : WorkerStep(s, W_outNotify(s))
    \/ \E s \in S : WorkerStep(s, W_fin1(s))
    \/ \E s \in S : WorkerStep(s, W_fin2(s))
    \/ \E s \in S : WorkerStep(s, W_finNotify(s))

SpecCmp == InitCmp /\ [][NextCmp]_vars

\* compare of short files with the cache option on or off: the texts fit into
\* one buffer load, so a request is never left active by a round that ended
\* in time, done() has nobody to wait for and no worker waits inside output()
ShortCompareInputs == { in \in CompareInputs : in.file1 \in {2, 3} }

InitCmpOpt ==
    /\ InitSessions
    /\ c = InitConsumer
    /\ docs = CmpDocs
    /\ noCache \in BOOLEAN

NextCmpOpt ==
    \/ \E in \in ShortCompareInputs : HostStep(C_compare(in))
    \/ HostStep(C_idBegin)
    \/ HostStep(C_idCheck)
    \/ HostStep(C_idInit)
    \/ HostStep(C_stopCas)
    \/ HostStep(C_stopSignal)
    \/ HostStep(C_stopSearch)
    \/ HostStep(C_nwSignaled)
    \/ HostStep(C_cmpSearch)
    \/ HostStep(C_cmpStart1)
    \/ HostStep(C_cmpStart2)
    \/ HostStep(C_cmpArm1)
    \/ HostStep(C_cmpArm2)
    \/ HostStep(C_cwNotify1)
    \/ HostStep(C_cwNotify2)
    \/ HostStep(C_cwSignaled)
    \/ HostStep(C_cwTimeout(CONSUMER_TIMEOUT))
    \/ HostStep(C_cwRead1)
    \/ HostStep(C_cwRead2)
    \/ HostStep(C_cmpLock)
    \/ HostStep(C_cmpTryLock)
    \/ HostStep(C_cmpResult)
    \/ HostStep(C_cmpProgress)
    \/ HostStep(C_cmpCond)
    \/ HostStep(C_cmpEnd)
    \/ HostStep(C_doneCas)
    \/ HostStep(C_doneSearch)
    \/ HostStep(C_cmpReturn)
    \/ \E s \in S : WorkerStep(s, W_setActive(s))
    \/ \E s \in S : WorkerStep(s, W_loop(s))
    \/ \E s \in S : WorkerStep(s, W_signaled(s))
    \/ \E s \in S : WorkerStep(s, W_timeout(s))
    \/ \E s \in S : WorkerStep(s, W_idleClose(s))
    \/ \E s \in S : WorkerStep(s, W_openRead(s))
    \/ \E s \in S : WorkerStep(s, W_openDecide(s))
    \/ \E s \in S : WorkerStep(s, W_openSetActive(s))
    \/ \E s \in S : WorkerStep(s, W_openMake(s))
    \/ \E s \in S : WorkerStep(s, W_openErr(s))
    \/ \E s \in S : WorkerStep(s, W_doWork(s))
    \/ \E s \in S : WorkerStep(s, W_setValue(s))
    \/ \E s \in S : WorkerStep(s, W_page(s))
    \/ \E s \in S : WorkerStep(s, W_outLock(s))
    \/ \E s \in S : WorkerStep(s, W_outBody(s))
    \/ \E s \in S : WorkerStep(s, W_outNext(s))
    \/ \E s \in S : WorkerStep(s, W_outTimeout(s))
    \/ \E s \in S : WorkerStep(s, W_outFull(s))
    \/ \E s \in S : WorkerStep(s, W_outNotify(s))
    \/ \E s \in S : WorkerStep(s, W_fin1(s))
    \/ \E s \in S : WorkerStep(s, W_fin2(s))
    \/ \E s \in S : WorkerStep(s, W_finClose(s))
    \/ \E s \in S : WorkerStep(s, W_finNotify(s))

SpecCmpOpt == InitCmpOpt /\ [][NextCmpOpt]_vars

(* ---------------------------------------------------------------------- *)
(* Properties of compare                                                  *)
(* ---------------------------------------------------------------------- *)
\* compare is about to return c.result
Returning == c.op = "compare" /\ c.pc = "cmp_ret"

\* both workers exist, no wait has expired and the user has not aborted
Undisturbed ==
    /\ hasWorker[1] /\ hasWorker[2]
    /\ g.tmo = 0 /\ ~g.userAbort

\* a text without its delimiters
StripText(text) == SelectSeq(text, LAMBDA ch : ch \notin delims)

\* C8: a compare whose round reads the result ft_fieldempty of both requests
\* returns ft_compare_eq, with no bytes counted as processed.
C8_EmptyIsEqual ==
    (Returning /\ g.empty) => (c.result = ft_compare_eq /\ c.bytes = 0)

\* compare returns for two files without text, both results read as empty
C8_EmptyCompared ==
    Returning /\ g.empty /\ TextOf(c.file) = << >> /\ TextOf(c.file2) = << >>

\* C9: a compare of two files with identical content, in which no wait
\* expires, returns ft_compare_eq.
C9_IdenticalIsEqual ==
    (Returning /\ Undisturbed /\ docs[c.file].ok /\ docs[c.file] = docs[c.file2])
        => (c.result = ft_compare_eq)

\* C9 for a compare that has found both workers marked active
C9_IdenticalIsEqualOnceActive ==
    (Returning /\ Undisturbed /\ ~g.inactive
       /\ docs[c.file].ok /\ docs[c.file] = docs[c.file2])
        => (c.result = ft_compare_eq)

\* C10: a compare of two texts that differ only in delimiters, in which no wait
\* expires and both workers were found active, returns ft_compare_eq_txt.
C10_DelimitersOnlyIsEqualTxt ==
    (Returning /\ Undisturbed /\ ~g.inactive /\ c.field = fiText
       /\ TextOf(c.file) # TextOf(c.file2)
       /\ StripText(TextOf(c.file)) = StripText(TextOf(c.file2)))
        => (c.result = ft_compare_eq_txt)

\* C11: compare returns ft_compare_eq only when no round matched as text only
\* and no round found a difference; an equal outcome with a round that
\* matched as text only is returned as ft_compare_eq_txt; and only an equal
\* outcome is returned as ft_compare_eq_txt.
C11_EqualOnlyIfEveryRoundBinary ==
    Returning =>
        /\ (c.result = ft_compare_eq) => (~g.txt /\ ~g.miss)
        /\ (g.pre = ft_compare_eq /\ g.txt) => (c.result = ft_compare_eq_txt)
        /\ (c.result = ft_compare_eq_txt) => (g.pre = ft_compare_eq)

\* the worker of session s has opened the file of the compare and has not
\* closed it for want of requests
KeepsFile(s) == docs[FileOf(s)].ok /\ w[s].timeout # INFINITE

\* C12 as stated: when compare returns, done() has been called on both
\* sessions, neither session is active, and the documents the workers opened
\* are open, with the cache option on or off.
C12_DoneKeepsDocuments ==
    Returning =>
        /\ g.done[1] /\ g.done[2]
        /\ status[1] # active /\ status[2] # active
        /\ (g.tmo = 0 /\ ~g.inactive)
              => \A s \in S : KeepsFile(s) => (doc[s] = FileOf(s))

\* what holds of the return of compare: done() has been called on both
\* sessions; when no round has timed out neither session is active, and the
\* documents the workers opened are open exactly when the cache option is on
\* (noCache makes the worker close its document at the end of every request).
DoneKeepsDocumentsIfCached ==
    Returning =>
        /\ g.done[1] /\ g.done[2]
        /\ (g.tmo = 0) => (status[1] # active /\ status[2] # active)
        /\ (g.tmo = 0 /\ ~g.inactive)
              => \A s \in S : KeepsFile(s) =>
                    (IF noCache THEN doc[s] = NoFile ELSE doc[s] = FileOf(s))

\* C13: a compare in which a file cannot be opened returns ft_compare_err.
C13_UnreadableIsError ==
    (Returning /\ Undisturbed /\ ~g.inactive
       /\ (~docs[c.file].ok \/ ~docs[c.file2].ok))
        => (c.result = ft_compare_err)

(* ---------------------------------------------------------------------- *)
(* PDFExtractor::waitForConsumer and the status                           *)
(* ---------------------------------------------------------------------- *)
\* the step in which PDFExtractor::waitForConsumer maps the wait result
WaitForConsumerStep == c.pc = "ex_res" /\ c'.pc # "ex_res"

\* C14 as stated: when the consumer's wait ends with WAIT_TIMEOUT while the
\* request is active, waitForConsumer moves the status to cancelled.
C14_TimeoutCancels ==
    [][(WaitForConsumerStep /\ c.dw = WAIT_TIMEOUT /\ status[1] = active)
          => (status'[1] = cancelled)]_vars

\* C14 as the code has it: waitForConsumer leaves the status alone when the
\* wait was signaled or timed out; only a failed wait exchanges active for
\* cancelled, and no other status is touched.
C14_OnlyFailedWaitCancels ==
    [][WaitForConsumerStep
          => (status'[1] = IF (c.dw \notin {WAIT_OBJECT_0, WAIT_TIMEOUT})
                                /\ (status[1] = active)
                             THEN cancelled ELSE status[1])]_vars

\* extract has timed out waiting, the request is still active and the worker
\* is still extracting for it
C14_ActiveAfterTimeout ==
    /\ c.op = "extract" /\ c.pc \in {"ex_copy", "ex_copyv"}
    /\ c.dw = WAIT_TIMEOUT /\ c.result = ft_timeout
    /\ status[1] = active
    /\ w[1].pc \notin {"none", "exited", "start", "loop", "wait"}

\* the step in which initData reads the status and decides
InitDataDecides == c.pc = "id_chk" /\ c'.pc # "id_chk" /\ c.op = "extract"

ReturnsSignaled ==
    /\ c.op = "extract" /\ c'.op = "none"
    /\ c.pc \in {"ex_copy", "ex_copyv"}
    /\ c.armed /\ c.hasDst /\ c.result = ft_setsuccess
    /\ threadID # 0 /\ c.dw = WAIT_OBJECT_0

\* C16: an extract of a file that cannot be opened, whatever the field, returns
\* ft_fileerror once the worker has answered, and leaves the session closed
\* with no document.
C16_OpenFailureIsFileError ==
    [][(ReturnsSignaled /\ ~docs[c.file].ok)
          => (c'.result = ft_fileerror /\ status'[1] = closed /\ doc'[1] = NoFile)]_vars

\* a streaming extract without a destination buffer returns to the host
ReturnsNoDst ==
    c.op = "extract" /\ c'.op = "none" /\ isStreaming(c.field) /\ ~c.hasDst

\* C17 as stated: a streaming extract called without a destination buffer
\* returns ft_nosuchfield.
C17_NoDstIsNoSuchField ==
    [][ReturnsNoDst => (c'.result = ft_nosuchfield)]_vars

\* C17 as the code has it: without a destination buffer a streaming extract
\* returns ft_nosuchfield when initData initialised the request and
\* ft_fieldempty when it did not; it never returns streamed text and the
\* copy to the destination, which moves the buffer and the cursor, is not made.
C17_NoDstNeverCopies ==
    [][ReturnsNoDst
          => (/\ c'.result = (IF c.armed THEN ft_nosuchfield ELSE ft_fieldempty)
              /\ c'.result # ft_fulltextw
              /\ buf' = buf /\ ptr' = ptr)]_vars

\* a text request without a destination buffer has returned ft_nosuchfield
\* while extracted text is waiting in the buffer
C17_NoDstWithTextWaiting ==
    /\ c.pc = "idle" /\ c.op = "none" /\ isStreaming(c.field) /\ ~c.hasDst
    /\ c.armed /\ c.result = ft_nosuchfield
    /\ ptr[1] > 0

\* an extract with unit = -1 is in progress; Signaled: its stop() has passed
\* the signal to the producer
Abandoning == c.op = "extract" /\ isStreaming(c.field) /\ c.unit = -1

AbandonSignaled == Abandoning /\ c.pc \notin {"id_begin", "stop_cas", "stop_sig"}

\* until stop() signals, no producer signal is pending in an abandon call, so
\* a wake of the worker during the call is the call's own
AbandonStartsUnsignaled == (Abandoning /\ ~AbandonSignaled) => ~prodEv[1]

\* C18: an extract with unit = -1 arms no new work: its steps leave the
\* request and the cursor alone and change the status only from active to
\* cancelled, it returns ft_fieldempty, and the wake-up it sends does not make
\* the worker open the document and work on the request again.
C18_AbandonArmsNoWork ==
    [][Abandoning
          => (/\ (c' # c) => (/\ req' = req /\ ptr' = ptr
                              /\ status'[1] \in {status[1], cancelled}
                              /\ (c'.op = "none") => (c'.result = ft_fieldempty))
              /\ AbandonSignaled => ~(w[1].pc = "wait" /\ w'[1].pc = "open"))]_vars

(* ---------------------------------------------------------------------- *)
(* PDFExtractor::open and the document of a session                       *)
(* ---------------------------------------------------------------------- *)
\* the step of open() that compares the request's path with m_fileName
OpenDecides(s) == w[s].pc = "open2" /\ w'[s].pc # "open2" /\ w[s].rf # NoFile

SamePath(s) ==
    mFileName[s] # NoFile /\ towlower(mFileName[s]) = towlower(w[s].rf)

\* C19: an open document is the one m_fileName names; a document is only
\* created when the session holds none; a request whose path differs from
\* m_fileName without regard to letter case releases the document and
\* remembers the new path; a request whose path is the same leaves document,
\* path and status alone and works on the open document.
C19_DocumentIdentity ==
    /\ [](\A s \in S : (doc[s] # NoFile) => (doc[s] = mFileName[s]))
    /\ [][\A s \in S :
            /\ (doc'[s] # doc[s] /\ doc'[s] # NoFile) => (doc[s] = NoFile)
            /\ (OpenDecides(s) /\ ~SamePath(s))
                  => (doc'[s] = NoFile /\ mFileName'[s] = w[s].rf)
            /\ (OpenDecides(s) /\ SamePath(s))
                  => (/\ doc'[s] = doc[s] /\ mFileName'[s] = mFileName[s]
                      /\ status'[s] = status[s]
                      /\ (doc[s] # NoFile) => (w'[s].pc = "work"))]_vars

\* the worker works on the document it opened as file 1 for a request that
\* names the file in the other letter case
C19_ReusedOtherCase ==
    /\ req[1].fileName = OtherCase
    /\ w[1].pc \in {"work", "val"}
    /\ doc[1] = 1 /\ mFileName[1] = 1

\* the exchanges the code makes with setStatusCond, as << old, new >>
GuardedEdges ==
    { << complete, active >>, << active, cancelled >>,
      << active, complete >>, << cancelled, closed >> }

\* C20: the status changes only by one of the guarded exchanges, except for
\* the write of cancelled in abort().
C20_OnlyGuardedTransitions ==
    [][\A s \in S :
          (status'[s] # status[s])
              => \/ << status[s], status'[s] >> \in GuardedEdges
                 \/ (c.op = "abort" /\ c.pc = "ab_status" /\ status'[s] = cancelled)]_vars

(* ---------------------------------------------------------------------- *)
(* The mutex of a session                                                 *)
(* ---------------------------------------------------------------------- *)
\* the step is taken while the other thread holds the mutex of session s
WhileOtherHolds(s) ==
    \/ mtx[s] = "w" /\ w'[s] = w[s]
    \/ mtx[s] = "c" /\ c' = c

\* C21 as stated: buffer, cursor and status of a session are not changed by a
\* step taken while the other thread holds the session's mutex.
C21_AllUnderMutex ==
    [][\A s \in S :
          (buf'[s] # buf[s] \/ ptr'[s] # ptr[s] \/ status'[s] # status[s])
              => ~WhileOtherHolds(s)]_vars

\* C21 as the code has it: buffer and cursor are not changed while the other
\* thread holds the mutex; the status is an atomic that is exchanged without
\* the mutex.
C21_BufferUnderMutex ==
    [][\A s \in S :
          (buf'[s] # buf[s] \/ ptr'[s] # ptr[s]) => ~WhileOtherHolds(s)]_vars

\* the consumer is about to copy text out while the worker, inside output(),
\* holds the mutex
C21_CopyWaitsForWorker ==
    /\ c.pc = "ex_copy" /\ c.hasDst /\ c.result \in {ft_timeout, ft_setsuccess}
    /\ mtx[1] = "w" /\ ptr[1] > 0

C22_WorkerWaitsForCompare ==
    /\ c.pc = "cmp_locked" /\ mtx[1] = "c" /\ mtx[2] = "c"
    /\ \E s \in S : w[s].pc = "out"

\* C23: the document and the remembered path of a session change only in a
\* step of the session's worker, never in a step of the consumer, and a step
\* of the consumer changes buffer or cursor only when the worker does not
\* hold the mutex.
C23_WorkerOwnsDocument ==
    [][\A s \in S :
          /\ (doc'[s] # doc[s] \/ mFileName'[s] # mFileName[s])
                => (w'[s] # w[s] /\ c' = c)
          /\ (c' # c /\ (buf'[s] # buf[s] \/ ptr'[s] # ptr[s]))
                => (mtx[s] # "w")]_vars

\* abort() has returned and the document is still open: closing it is left
\* to the worker
C23_AbortLeavesDocument ==
    /\ c.op = "abort" /\ c.pc = "aborted"
    /\ doc[1] # NoFile /\ mFileName[1] = doc[1]
    /\ w[1].pc \notin {"none", "exited"}

ConsumerWoken == c.pc = "nw_wait" /\ c'.pc # "nw_wait" /\ c'.dw = WAIT_OBJECT_0

\* C25: when the consumer's wait returns signaled, the worker has taken the
\* producer signal that this call raised (the wake answers this call and is
\* not a consumer signal left from an earlier round), and when
\* notifyProducerWaitForConsumer returns after a timeout the producer signal
\* is not set.
C25_WakesArePaired ==
    [][/\ ConsumerWoken => ~prodEv[c.ws]
       /\ (c.pc = "nw_reset" /\ c'.pc # "nw_reset") => ~prodEv'[c.ws]]_vars

\* the first extract on the session returns; it asked for a non-streaming
\* field of a file that opens, its worker thread was created and its wait
\* for the worker did not time out
FirstValueReturns ==
    /\ c.op = "extract" /\ c'.op = "none" /\ c.calls = 1
    /\ ~isStreaming(c.field) /\ docs[c.file].ok /\ c.hasDst
    /\ threadID # 0 /\ c.dw # WAIT_TIMEOUT

\* C26: such a request returns the result type of the field, ft_numeric_32
\* for the page count, and the buffer it is copied from holds the page count.
C26_FirstValueDelivered ==
    [][FirstValueReturns
          => (/\ c'.result = ft_numeric_32
              /\ << buf[1][1], buf[1][2] >> = Int32Cells(Len(docs[c.file].pages)))]_vars

\* extract is about to return after startWorkerThread returned 0: the request
\* calls start (it is not a continuation of a streamed text) and the thread id
\* that start returned is 0
StartupFailed ==
    /\ c.op = "extract" /\ c.pc \in {"ex_copy", "ex_copyv"}
    /\ isStreaming(c.field) => (c.unit = 0)
    /\ threadID = 0

\* C27: when startup fails extract returns neither a field value type nor
\* streamed text, and it takes nothing out of the request buffer.
C27_StartupFailureIsUnavailable ==
    [][(StartupFailed /\ c'.op = "none")
          => (/\ c'.result \notin {ft_numeric_32, ft_stringw, ft_fulltextw}
              /\ buf' = buf /\ ptr' = ptr)]_vars

\* ThreadData::stop on session s returns to its caller
StopReturns(s) ==
    /\ c.ws = s /\ c'.pc = c.sr
    /\ \/ c.pc \in {"stop_cas", "stop_sig"}
       \/ c.pc = "nw_wait" /\ c.wr = c.sr

\* the state of session s that the worker and the next request see
SessionState(s) ==
    << status[s], isActive[s], prodEv[s], consEv[s], req[s], buf[s], ptr[s], doc[s],
       mFileName[s] >>

\* a stop that finds the status closed or cancelled returns at once, signals
\* nothing and changes nothing in the session
StopWithoutRequest ==
    \A s \in S :
       (c.pc = "stop_cas" /\ c.ws = s /\ c' # c /\ status[s] \in {closed, cancelled})
          => (StopReturns(s) /\ SessionState(s)' = SessionState(s))

C29_BackPressure ==
    [][\A s \in S :
          /\ (w[s].pc = "out_locked" /\ w'[s] # w[s] /\ remaining(s) <= 2)
                => (w'[s].pc = "out_wait" /\ buf'[s] = buf[s] /\ ptr'[s] = ptr[s])
          /\ (w[s].pc = "out_wait" /\ w'[s] # w[s])
                => /\ buf'[s] = buf[s] /\ ptr'[s] = ptr[s]
                   /\ IF prodEv[s]
                      THEN /\ status'[s] = status[s]
                           /\ w'[s].pc = IF status[s] # active THEN "fin1" ELSE "out"
                      ELSE /\ status'[s] = IF status[s] = active THEN cancelled ELSE status[s]
                           /\ w'[s].pc = "fin1"
          /\ (w[s].pc \in {"out", "out_locked", "out_full", "out_ntf"} /\ w'[s] # w[s])
                => /\ ptr'[s] >= ptr[s]
                   /\ \A i \in 1..BufCells :
                         (sizeOfWchar * i <= ptr[s]) => (buf'[s][i] = buf[s][i])]_vars

\* the worker found a full buffer holding text that nobody has taken, and
\* waits while the host has no call in progress
C29_WaitsWithFullBuffer ==
    /\ w[1].pc = "out_wait" /\ remaining(1) <= 2 /\ ptr[1] > 0
    /\ status[1] = active /\ ~prodEv[1] /\ c.pc = "idle"
    /\ \A i \in 1..BufCells : (sizeOfWchar * i <= ptr[1]) => (buf[1][i] # NUL)

\* the host thread calls ThreadData::start on session s: startWorkerThread in
\* extract and compare, m_search->startWorkerThread in compare
StartCall(s) ==
    /\ c' # c
    /\ \/ s = 1 /\ c.pc \in {"ex_arm", "cmp_start1"}
       \/ s = 2 /\ c.pc = "cmp_start2"

\* C30: start() on a session returns a nonzero thread id exactly when that
\* session has a worker thread after the call, created by the call or found
\* running, and 0 otherwise, whatever happened in the other session.
C30_StartMeansOwnWorker ==
    [][\A s \in S : StartCall(s) => ((threadID' # 0) <=> hasWorker'[s])]_vars

(* ---------------------------------------------------------------------- *)
(* Specification of setRequestPtr alone                                   *)
(* ---------------------------------------------------------------------- *)
\* positions as byte offsets from the buffer begin, from two bytes before the
\* buffer to two bytes past its end
PtrInputs == (0 - 2)..(REQUEST_BUFFER_SIZE + 2)

\* a call of ThreadData::setRequestPtr(buffer + pos); c.pPre keeps the cursor
\* before the call and c.pInit the position asked for
P_setRequestPtr(pos) ==
    /\ c.op \in {"none", "setptr"}
    /\ ptr' = [ptr EXCEPT ![1] = setRequestPtr(1, pos)]
    /\ c' = [c EXCEPT !.op = "setptr", !.pPre = ptr[1], !.pInit = pos]
    /\ UNCHANGED << status, isActive, prodEv, consEv, hasEvents, hasWorker, req, buf,
                    mtx, doc, mFileName, w, threadID, g, docs, noCache, destroyed >>

NextPtr == \E pos \in PtrInputs : P_setRequestPtr(pos)

SpecPtr == Init /\ [][NextPtr]_vars

\* C3: after every call of setRequestPtr the cursor lies within the buffer,
\* and a call with a position outside the buffer changes neither the cursor
\* nor anything else of the request.
C3_CursorInBuffer ==
    [][/\ ptr'[1] >= 0 /\ ptr'[1] <= REQUEST_BUFFER_SIZE
       /\ (c'.pInit < 0 \/ c'.pInit > REQUEST_BUFFER_SIZE)
             => (ptr' = ptr /\ req' = req /\ buf' = buf)]_vars

\* a position past the buffer end was refused while the cursor was inside
C3_RefusedPastEnd ==
    c.op = "setptr" /\ c.pInit > REQUEST_BUFFER_SIZE /\ c.pPre > 0 /\ ptr[1] = c.pPre

(* ---------------------------------------------------------------------- *)
(* Specification of PdfDateTimeToFileTime alone                           *)
(* ---------------------------------------------------------------------- *)
\* a date string is a sequence of characters; the character at offset i, the
\* terminating NUL of the GString read as the empty string
CharAt(str, i) == IF i >= 0 /\ i < Len(str) THEN str[i + 1] ELSE ""

Digits == << "0", "1", "2", "3", "4", "5", "6", "7", "8", "9" >>

DigitVal(ch) == (CHOOSE k \in 1..10 : Digits[k] = ch) - 1

IsDigit(ch) == \E k \in 1..10 : Digits[k] = ch

RECURSIVE DecimalOf(_, _, _)
DecimalOf(str, p, n) ==
    IF n = 0 THEN 0 ELSE DecimalOf(str, p, n - 1) * 10 + DigitVal(CharAt(str, p + n - 1))

\* dateToInt that takes the leading digits and ignores what follows them
dateToInt_leadingDigits(str, p, n, old) ==
    IF IsDigit(CharAt(str, p))
    THEN [ok |-> TRUE,
          val |-> IF \A k \in 0..(n - 1) : IsDigit(CharAt(str, p + k))
                  THEN DecimalOf(str, p, n) ELSE DigitVal(CharAt(str, p))]
    ELSE [ok |-> FALSE, val |-> old]

\* PDFExtractor::dateToInt: std::from_chars must convert all n characters; the
\* result keeps its old value when it does not
dateToInt(str, p, n, old) ==
    IF \A k \in 0..(n - 1) : IsDigit(CharAt(str, p + k))
    THEN [ok |-> TRUE, val |-> DecimalOf(str, p, n)]
    ELSE [ok |-> FALSE, val |-> old]

\* if (len && (*acrobatDateTimeString == ch)) { acrobatDateTimeString++; len--; }
SkipChar(str, st, chars) ==
    IF st.len > 0 /\ CharAt(str, st.p) \in chars
    THEN [st EXCEPT !.p = @ + 1, !.len = @ - 1]
    ELSE st

\* if ((len >= 2) && dateToInt(acrobatDateTimeString, 2U, field)): the fields
\* are nested, a field is tried only when all fields before it were read
TwoDigits(str, st, field, k) ==
    IF st.n # k - 1 THEN st
    ELSE LET r == dateToInt(str, st.p, 2, st[field]) IN
         IF st.len >= 2 /\ r.ok
         THEN [st EXCEPT ![field] = r.val, !.p = @ + 2, !.len = @ - 2, !.n = k]
         ELSE st

\* the year taken as written, whatever its value
ParseYear_asWritten(str, st) ==
    LET r == dateToInt(str, st.p, 4, 0) IN
    IF ~r.ok THEN st
    ELSE [st EXCEPT !.wYear = r.val, !.p = @ + 4, !.len = @ - 4, !.n = 1]

\* the year: four digits, or the five characters CCYYY of the Distiller bug
ParseYear(str, st) ==
    LET r == dateToInt(str, st.p, 4, 0) IN
    IF ~r.ok THEN st
    ELSE IF r.val >= 1909 /\ r.val <= 1913 /\ st.len > 14
    THEN LET r3 == dateToInt(str, st.p + 2, 3, r.val) IN
         IF r3.ok
         THEN [st EXCEPT !.wYear = r3.val + 1900, !.p = @ + 5, !.len = @ - 5, !.n = 1,
                         !.y2k = TRUE]
         ELSE [st EXCEPT !.wYear = 0, !.p = @ + 2, !.n = 1, !.y2k = TRUE]
    ELSE [st EXCEPT !.wYear = r.val, !.p = @ + 4, !.len = @ - 4, !.n = 1]

\* the offset that follows the seconds, in minutes
ParseOffset(str, st) ==
    IF st.n # 6 \/ st.len < 3 THEN st
    ELSE LET sign == IF CharAt(str, st.p) = "+" THEN 0 - 1 ELSE 1
             s1   == [st EXCEPT !.p = @ + 1, !.len = @ - 1]
             hh   == dateToInt(str, s1.p, 2, 0)
             s2   == IF hh.ok
                     THEN SkipChar(str, [s1 EXCEPT !.p = @ + 2, !.len = @ - 2], {":", "'"})
                     ELSE s1
             mm   == IF hh.ok /\ s2.len >= 2 THEN dateToInt(str, s2.p, 2, 0).val ELSE 0
         IN [s2 EXCEPT !.offset = sign * (hh.val * 60 + mm), !.hasOffset = TRUE]

\* the parsing part of PdfDateTimeToFileTime: the SYSTEMTIME pdfLocalTime, the
\* offset, and n, the number of fields read (0 when there is no year)
ParseDateTime(str) ==
    LET dc == (CharAt(str, 0) = "D") /\ (CharAt(str, 1) = ":")
        s0 == [p |-> IF dc THEN 2 ELSE 0, len |-> IF dc THEN Len(str) - 2 ELSE Len(str),
               wYear |-> 0, wMonth |-> 1, wDay |-> 1, wHour |-> 0, wMinute |-> 0,
               wSecond |-> 0, offset |-> 0, hasOffset |-> FALSE, n |-> 0, y2k |-> FALSE]
    IN IF Len(str) < 4 \/ s0.len < 4 THEN s0
       ELSE LET s1 == ParseYear(str, s0)
                s2 == TwoDigits(str, SkipChar(str, s1, {"-"}), "wMonth", 2)
                s3 == TwoDigits(str, IF s2.n = 2 THEN SkipChar(str, s2, {"-"}) ELSE s2, "wDay", 3)
                s4 == TwoDigits(str, IF s3.n = 3 THEN SkipChar(str, s3, {"T"}) ELSE s3, "wHour", 4)
                s5 == TwoDigits(str, IF s4.n = 4 THEN SkipChar(str, s4, {":"}) ELSE s4, "wMinute", 5)
                s6 == TwoDigits(str, IF s5.n = 5 THEN SkipChar(str, s5, {":"}) ELSE s5, "wSecond", 6)
            IN IF s1.n = 0 THEN s1 ELSE ParseOffset(str, s6)

IsLeap(y) == (y % 4 = 0) /\ ((y % 100 # 0) \/ (y % 400 = 0))

DaysInMonth(y, m) ==
    IF m = 2 THEN (IF IsLeap(y) THEN 29 ELSE 28)
    ELSE IF m \in {4, 6, 9, 11} THEN 30 ELSE 31

RECURSIVE DaysBeforeMonth(_, _)
DaysBeforeMonth(y, m) == IF m <= 1 THEN 0 ELSE DaysBeforeMonth(y, m - 1) + DaysInMonth(y, m - 1)

\* days from 1601-01-01 to the first day of year y
DaysBeforeYear(y) ==
    LET k == y - 1601 IN k * 365 + (k \div 4) - (k \div 100) + (k \div 400)

\* SystemTimeToFileTime succeeds for a calendar time from the year 1601 on
ValidSystemTime(st) ==
    /\ st.wYear >= 1601 /\ st.wYear <= 30827
    /\ st.wMonth >= 1 /\ st.wMonth <= 12
    /\ st.wDay >= 1 /\ st.wDay <= DaysInMonth(st.wYear, st.wMonth)
    /\ st.wHour <= 23 /\ st.wMinute <= 59 /\ st.wSecond <= 59

\* SystemTimeToFileTime: the minutes since 1601-01-01 00:00 (the seconds are
\* kept apart; a FILETIME counts 100 ns units)
MinutesOf(st) ==
    ((DaysBeforeYear(st.wYear) + DaysBeforeMonth(st.wYear, st.wMonth) + (st.wDay - 1)) * 24
        + st.wHour) * 60 + st.wMinute

\* what the time zone database of the system offers for the offset of the
\* string: no zone with that bias (or no database functions), a zone that is
\* on standard time at the local time, or a zone that is on daylight time then
TzCases == {"none", "standard", "daylight"}

\* TzSpecificLocalTimeToSystemTimeEx: UTC = local time + Bias, and on daylight
\* time + DaylightBias, which is -60 minutes
TzSpecificLocalTimeToSystemTimeEx(st, tz) ==
    MinutesOf(st) + st.offset - (IF tz = "daylight" THEN 60 ELSE 0)

\* timeValue.QuadPart += offset * 600000000ULL in 64 bits: a sum below zero
\* wraps around 2^64 (wrapped), the minutes then count down from 2^64
AddOffset(st) ==
    LET m == MinutesOf(st) + st.offset IN [min |-> m, wrapped |-> m < 0]

\* AddOffset without the offset
AddOffset_ignored(st) == [min |-> MinutesOf(st), wrapped |-> FALSE]

\* PDFExtractor::PdfDateTimeToFileTime(pdfDateTime, fileTime): the conversion
\* of the parsed local time, by the first time zone whose bias is the offset,
\* otherwise by SystemTimeToFileTime and the addition of the offset
PdfDateTimeToFileTime(str, tz) ==
    LET st == ParseDateTime(str) IN
    IF st.n = 0 \/ ~ValidSystemTime(st)
    THEN [ok |-> FALSE, min |-> 0, sec |-> 0, wrapped |-> FALSE, st |-> st]
    ELSE IF tz # "none" /\ TzSpecificLocalTimeToSystemTimeEx(st, tz) >= 0
    THEN [ok |-> TRUE, min |-> TzSpecificLocalTimeToSystemTimeEx(st, tz),
          sec |-> st.wSecond, wrapped |-> FALSE, st |-> st]
    ELSE [ok |-> TRUE, min |-> AddOffset(st).min, sec |-> st.wSecond,
          wrapped |-> AddOffset(st).wrapped, st |-> st]

\* the date strings of the documents: an optional D:, a year, the rest
DatePrefixes == { << >>, << "D", ":" >> }

DateYears == { << "2", "0", "0", "8" >>,
               << "1", "9", "9", "9" >>,
               << "1", "9", "0", "9" >>,
               << "1", "9", "1", "0", "8" >>,
               << "1", "9", "1", "3", "8" >>,
               << "1", "9", "1", "4" >>,
               << "1", "6", "0", "1" >>,
               << "1", "6", "0", "0" >>,
               << "2", "0", "x", "8" >>,
               << "2", "0", "0" >> }

DateTails == { << >>,
               << "0", "4" >>,
               << "-", "0", "4" >>,
               << "1", "3" >>,
               << "0" >>,
               << "0", "4", "3", "1" >>,
               << "0", "2", "2", "9" >>,
               << "0", "4", "-", "1", "8", "T", "1", "1" >>,
               << "0", "4", "1", "8", "1", "1", "x", "9" >>,
               << "0", "4", "1", "8", "1", "1", "1", "9", "5", "1" >>,
               << "0", "4", "1", "8", "1", "1", "1", "9", "5", "1", "Z" >>,
               << "0", "4", "1", "8", "1", "1", "1", "9", "5", "1", "+", "0", "2", "'", "0", "0", "'" >>,
               << "0", "4", "1", "8", "1", "1", "1", "9", "5", "1", "-", "0", "7", "'", "0", "0", "'" >>,
               << "0", "4", "1", "8", "1", "1", "1", "9", "5", "1", "+", "0", "2", "3", "0" >>,
               << "0", "4", "-", "1", "8", "T", "1", "1", ":", "1", "9", ":", "5", "1", "+", "0", "2", ":", "0", "0" >>,
               << "0", "1", "0", "1", "0", "0", "0", "0", "0", "0", "+", "0", "1", "'", "0", "0", "'" >>,
               << "0", "4", "1", "8", "2", "5", "1", "9", "5", "1" >>,
               << "-", "0", "4", "-", "1", "8", "T", "1", "1", ":", "1", "9", ":", "5", "1" >> }

\* getMetadataDate: the host asks for a date field of a document whose date
\* string is str, on a system whose time zone database gives tz
D_getMetadataDate(str, tz) ==
    /\ c.op = "none"
    /\ c' = [op |-> "date", str |-> str, tz |-> tz, r |-> PdfDateTimeToFileTime(str, tz)]
    /\ UNCHANGED << status, isActive, prodEv, consEv, hasEvents, hasWorker, req, buf, ptr,
                    mtx, doc, mFileName, w, threadID, g, docs, noCache, destroyed >>

NextDate ==
    \E pre \in DatePrefixes, y \in DateYears, t \in DateTails, tz \in TzCases :
        D_getMetadataDate(pre \o y \o t, tz)

SpecDate == Init /\ [][NextDate]_vars

\* the offset of the first character after the optional D: prefix
DateStart(str) == IF (CharAt(str, 0) = "D") /\ (CharAt(str, 1) = ":") THEN 2 ELSE 0

\* the string starts, after the prefix, with four digits
HasYear(str) == \A k \in 0..3 : IsDigit(CharAt(str, DateStart(str) + k))

\* the string has the five-character year of the Distiller bug
IsY2kString(str) ==
    /\ HasYear(str)
    /\ DecimalOf(str, DateStart(str), 4) \in 1909..1913
    /\ Len(str) - DateStart(str) > 14

\* the separator that may stand before field k: - before month and day, T
\* before the hour, : before minute and second
SeparatorBefore(k) == IF k <= 3 THEN "-" ELSE IF k = 4 THEN "T" ELSE ":"

\* where field k (1 year, 2 month, ... 6 second) stands in a string that is
\* read positionally, each field right after the one before it and after
\* the one separator that may stand between them
RECURSIVE FieldPos(_, _)
FieldPos(str, k) ==
    IF k = 1 THEN DateStart(str)
    ELSE LET e == FieldPos(str, k - 1) + (IF k = 2 THEN 4 ELSE 2) IN
         IF CharAt(str, e) = SeparatorBefore(k) THEN e + 1 ELSE e

FieldReadable(str, k) ==
    \A i \in 0..((IF k = 1 THEN 4 ELSE 2) - 1) : IsDigit(CharAt(str, FieldPos(str, k) + i))

\* the number of leading fields that can be read
FieldsPresent(str) ==
    IF ~FieldReadable(str, 1) THEN 0
    ELSE CHOOSE n \in 1..6 : /\ \A k \in 1..n : FieldReadable(str, k)
                             /\ (n < 6) => ~FieldReadable(str, n + 1)

\* the value the positional reading gives field k: its digits when it is among
\* the first n fields, otherwise the default
FieldOrDefault(str, k, n) ==
    IF k <= n THEN DecimalOf(str, FieldPos(str, k), IF k = 1 THEN 4 ELSE 2)
    ELSE IF k \in {2, 3} THEN 1 ELSE 0

\* the local time of the result is the positional reading of the string
KeepsParsedPrefix(str, r) ==
    LET n == FieldsPresent(str) IN
    /\ r.st.n = n
    /\ << r.st.wYear, r.st.wMonth, r.st.wDay, r.st.wHour, r.st.wMinute, r.st.wSecond >>
         = [k \in 1..6 |-> FieldOrDefault(str, k, n)]

YearWritten(str) == DecimalOf(str, DateStart(str), 4)

\* C32: a year written as 1909..1913 in a string of more than 14 characters
\* after the prefix, followed by three digits YYY after the century, is read as
\* 1900 + YYY and the month is read right after these five characters; every
\* other year is taken as written.
C32_Y2kCorrection ==
    (c.op = "date" /\ HasYear(c.str)) =>
        LET s == DateStart(c.str) IN
        IF IsY2kString(c.str)
        THEN (\A k \in 2..4 : IsDigit(CharAt(c.str, s + k)))
                => /\ c.r.st.wYear = 1900 + DecimalOf(c.str, s + 2, 3)
                   /\ (IsDigit(CharAt(c.str, s + 5)) /\ IsDigit(CharAt(c.str, s + 6)))
                         => (c.r.st.n >= 2 /\ c.r.st.wMonth = DecimalOf(c.str, s + 5, 2))
        ELSE c.r.st.wYear = YearWritten(c.str)

\* the string 191080418111951 was converted as 18 April 2008, 11:19:51
C32_ReadAs2008 ==
    /\ c.op = "date" /\ IsY2kString(c.str) /\ YearWritten(c.str) = 1910 /\ c.r.ok
    /\ c.r.st.wYear = 2008 /\ c.r.st.wMonth = 4 /\ c.r.st.wDay = 18 /\ c.r.st.wSecond = 51

\* the offset written after the seconds, in minutes east of UTC: the sign
\* character, two digits of hours, an optional ' or :, two digits of minutes
OffsetWritten(str) ==
    LET p  == FieldPos(str, 6) + 2
        hh == DecimalOf(str, p + 1, 2)
        q  == IF CharAt(str, p + 3) \in {":", "'"} THEN p + 4 ELSE p + 3
        mm == IF IsDigit(CharAt(str, q)) /\ IsDigit(CharAt(str, q + 1))
              THEN DecimalOf(str, q, 2) ELSE 0
    IN (IF CharAt(str, p) = "+" THEN 1 ELSE 0 - 1) * (hh * 60 + mm)

\* the string has all six fields and a signed offset of at least two digits
HasOffset(str) ==
    /\ HasYear(str) /\ ~IsY2kString(str) /\ FieldsPresent(str) = 6
    /\ CharAt(str, FieldPos(str, 6) + 2) \in {"+", "-"}
    /\ IsDigit(CharAt(str, FieldPos(str, 6) + 3)) /\ IsDigit(CharAt(str, FieldPos(str, 6) + 4))

\* C33: the timestamp of a converted string (with a year as written) is its
\* local time minus the offset written in it (local time as it is when there
\* is none), whatever the time zone database holds, and the 64-bit sum has
\* not wrapped.
C33_OffsetArithmetic ==
    (c.op = "date" /\ c.r.ok /\ ~IsY2kString(c.str)) =>
        /\ ~c.r.wrapped
        /\ c.r.min = MinutesOf(c.r.st) - (IF HasOffset(c.str) THEN OffsetWritten(c.str) ELSE 0)

(* ---------------------------------------------------------------------- *)
(* Specification of one session streaming text into destinations of any   *)
(* size                                                                   *)
(* ---------------------------------------------------------------------- *)
\* the text of file 1 is asked for, from its start or as a continuation, with
\* a destination of 0 to 6 bytes
CopyInputs ==
    { [file |-> 1, field |-> fiText, unit |-> u, hasDst |-> TRUE, dstSize |-> n] :
          u \in {0, 1}, n \in {0, 1, 2, 3, 4, 6} }

\* the steps of the host thread inside extract and of the worker of session 1
StreamSteps ==
    \/ HostStep(C_idBegin)
    \/ HostStep(C_idWaitOk)
    \/ HostStep(C_idWaitTimeout)
    \/ HostStep(C_idCheck)
    \/ HostStep(C_idInit)
    \/ HostStep(C_exArm)
    \/ HostStep(C_nwCall)
    \/ HostStep(C_nwSignaled)
    \/ HostStep(C_nwTimeout)
    \/ HostStep(C_nwReset)
    \/ HostStep(C_exRes)
    \/ HostStep(C_exCopy)
    \/ HostStep(C_stopCas)
    \/ HostStep(C_stopSignal)
    \/ HostStep(C_stopSearch)
    \/ WorkerStep(1, W_setActive(1))
    \/ WorkerStep(1, W_loop(1))
    \/ WorkerStep(1, W_signaled(1))
    \/ WorkerStep(1, W_timeout(1))
    \/ WorkerStep(1, W_idleClose(1))
    \/ WorkerStep(1, W_openRead(1))
    \/ WorkerStep(1, W_openDecide(1))
    \/ WorkerStep(1, W_openSetActive(1))
    \/ WorkerStep(1, W_openMake(1))
    \/ WorkerStep(1, W_doWork(1))
    \/ WorkerStep(1, W_page(1))
    \/ WorkerStep(1, W_outLock(1))
    \/ WorkerStep(1, W_outBody(1))
    \/ WorkerStep(1, W_outNext(1))
    \/ WorkerStep(1, W_outSignaled(1))
    \/ WorkerStep(1, W_outTimeout(1))
    \/ WorkerStep(1, W_outFull(1))
    \/ WorkerStep(1, W_outNotify(1))
    \/ WorkerStep(1, W_fin1(1))
    \/ WorkerStep(1, W_fin2(1))
    \/ WorkerStep(1, W_finClose(1))
    \/ WorkerStep(1, W_finNotify(1))

NextCopy ==
    \/ \E in \in CopyInputs : HostStep(C_extract(in))
    \/ StreamSteps

SpecCopy == Init /\ [][NextCopy]_vars

\* the host thread copies text out of the buffer of session 1
CopiesOut ==
    /\ c.pc = "ex_copy" /\ c' # c
    /\ c.hasDst /\ c.result \in {ft_timeout, ft_setsuccess}

\* C34: the cursor stays within the buffer, output() puts its terminating NUL
\* inside the buffer, and the memmove of the copy-out reads and writes cells
\* of the buffer only, for every size of the destination.
C34_AccessWithinBuffer ==
    [][/\ \A s \in S : ptr'[s] >= 0 /\ ptr'[s] <= REQUEST_BUFFER_SIZE
       /\ \A s \in S : (w[s].pc = "out_locked" /\ w'[s] # w[s])
                          => (ptr'[s] + sizeOfWchar <= REQUEST_BUFFER_SIZE)
       /\ CopiesOut => (memmoveCells(ptr[1], c.dstSize).reads
                           \cup memmoveCells(ptr[1], c.dstSize).writes) \subseteq 1..BufCells]_vars

(* ---------------------------------------------------------------------- *)
(* Soundness of compare                                                   *)
(* ---------------------------------------------------------------------- *)
\* a text as the comparison as text sees it: no delimiters, one letter case
FoldedText(text) == [i \in 1..Len(StripText(text)) |-> ToLower(StripText(text)[i])]

\* C35: a compare of the text of two files returns ft_compare_eq only when the
\* two texts are the same, and ft_compare_eq_txt only when they are the same
\* without their delimiters and in one letter case: a text that is a proper
\* prefix of the other is never found equal.
C35_EqualOnlyForEqualTexts ==
    (Returning /\ c.field = fiText /\ docs[c.file].ok /\ docs[c.file2].ok) =>
        /\ (c.result = ft_compare_eq) => (TextOf(c.file) = TextOf(c.file2))
        /\ (c.result = ft_compare_eq_txt)
              => (FoldedText(TextOf(c.file)) = FoldedText(TextOf(c.file2)))

\* the number of pages of file f, the value of the field fiNumberOfPages
NumPages(f) == Len(docs[f].pages)

\* C36: a compare of the numbers of pages of two files that can be opened, in
\* which no wait expires and both workers were found active, returns
\* ft_compare_eq exactly when the two numbers are the same, and never
\* ft_compare_eq_txt.
C36_ValuesEqualIffSame ==
    (Returning /\ Undisturbed /\ ~g.inactive /\ c.field = fiNumberOfPages
       /\ docs[c.file].ok /\ docs[c.file2].ok) =>
        /\ (c.result = ft_compare_eq) <=> (NumPages(c.file) = NumPages(c.file2))
        /\ c.result # ft_compare_eq_txt

(* ---------------------------------------------------------------------- *)
(* Specification of one session streaming text into destinations that     *)
(* hold at least one character                                            *)
(* ---------------------------------------------------------------------- *)
\* the host gives every call a destination of at least 4 bytes
StreamInputs == { in \in CopyInputs : in.dstSize >= 2 * sizeOfWchar }

NextStream ==
    \/ \E in \in StreamInputs : HostStep(C_extract(in))
    \/ StreamSteps

SpecStream == Init /\ [][NextStream]_vars

\* extract returns to the host in this step
ExtractReturns == c.op = "extract" /\ c'.op = "none"

\* C37: a call for the next piece of the text (unit > 0) tells the host that
\* nothing is left, by ft_fieldempty, only when the buffer holds no text: what
\* the worker has put into the buffer and no call has copied out is not
\* skipped.
C37_BufferedTextIsDelivered ==
    [][(ExtractReturns /\ c.unit > 0 /\ c'.result = ft_fieldempty)
          => (ptr[1] = 0)]_vars

(* ---------------------------------------------------------------------- *)
(* The answer of a request for a value                                    *)
(* ---------------------------------------------------------------------- *)
\* extract copies the result of a request for a value to the destination,
\* after a wait for the worker that returned signaled
CopiesValue ==
    /\ c.pc = "ex_copyv" /\ c'.op = "none"
    /\ c.result = ft_setsuccess /\ c.hasDst
    /\ threadID # 0 /\ c.dw = WAIT_OBJECT_0

\* what the worker computes for the number of pages of file f
ResultOf(f) == IF docs[f].ok THEN ft_numeric_32 ELSE ft_fileerror

\* C38: the result type that extract copies out for a request for the number
\* of pages is the one the worker computes for the file of this request, and
\* the value is the number of pages of that file; the late result of an
\* earlier request that timed out is not delivered.
C38_AnswerOfThisRequest ==
    [][CopiesValue =>
          /\ c'.result = ResultOf(c.file)
          /\ docs[c.file].ok =>
                (<< buf[1][1], buf[1][2] >> = Int32Cells(NumPages(c.file)))]_vars

(* ---------------------------------------------------------------------- *)
(* Specification of teardown and restart: extract, abort at the plugin's  *)
(* unloading notification (the extractor is kept), extract again          *)
(* ---------------------------------------------------------------------- *)
\* ContentPluginUnloading returns after g_extractor->abort(); the extractor,
\* its events and its buffer stay, the host may call the plugin again
C_unloaded ==
    /\ c.pc = "aborted"
    /\ c' = [c EXCEPT !.pc = "idle", !.op = "none"]
    /\ UNCHANGED << sessVars, threadID, g >>

\* the requests of this specification ask for the number of pages
RestartInputs ==
    { [file |-> f, field |-> fiNumberOfPages, unit |-> 0, hasDst |-> TRUE,
       dstSize |-> REQUEST_BUFFER_SIZE] : f \in {2} }

\* the thread t is inside doWork() and uses the document
InDoWork(t) == w[t].pc \in {"work", "val"}

\* two threads of one session share m_doc: a thread inside doWork() whose
\* document the other thread's close() has released uses a freed object; the
\* behaviour of the process is undefined from there and is not followed
Crashed == \E t \in {1, OldThread} : InDoWork(t) /\ doc[1] = NoFile

RHost(A) == ~Crashed /\ HostStep(A)

RThread(t, A) == ~Crashed /\ WorkerStep(t, A)

\* the steps of a thread of session 1, the one of the handle or the old one
ThreadSteps(t) ==
    \/ RThread(t, W_setActive(t))
    \/ RThread(t, W_loop(t))
    \/ RThread(t, W_signaled(t))
    \/ RThread(t, W_timeout(t))
    \/ RThread(t, W_idleClose(t))
    \/ RThread(t, W_openRead(t))
    \/ RThread(t, W_openDecide(t))
    \/ RThread(t, W_openSetActive(t))
    \/ RThread(t, W_openMake(t))
    \/ RThread(t, W_doWork(t))
    \/ RThread(t, W_setValue(t))
    \/ RThread(t, W_fin1(t))
    \/ RThread(t, W_fin2(t))
    \/ RThread(t, W_finClose(t))
    \/ RThread(t, W_finNotify(t))
    \/ RThread(t, W_exit(t))

NextRestart ==
    \/ \E in \in RestartInputs : RHost(C_extract(in))
    \/ RHost(C_idBegin)
    \/ RHost(C_idWaitOk)
    \/ RHost(C_idWaitTimeout)
    \/ RHost(C_idCheck)
    \/ RHost(C_idInit)
    \/ RHost(C_exArm)
    \/ RHost(C_nwCall)
    \/ RHost(C_nwSignaled)
    \/ RHost(C_nwTimeout)
    \/ RHost(C_nwReset)
    \/ RHost(C_exRes)
    \/ RHost(C_exCopyV)
    \/ RHost(C_abort)
    \/ RHost(C_abActive)
    \/ RHost(C_abStatus)
    \/ RHost(C_abName)
    \/ RHost(C_abNotify)
    \/ RHost(C_abExited)
    \/ RHost(C_abTimeout(PRODUCER_TIMEOUT))
    \/ RHost(C_abClose)
    \/ RHost(C_unloaded)
    \/ ThreadSteps(1)
    \/ ThreadSteps(OldThread)

SpecRestart == Init /\ [][NextRestart]_vars

\* the thread t is inside the body of the main loop of waitForProducer
InMainLoop(t) == w[t].pc \notin {"none", "start", "loop", "exit", "exited"}

\* C39: at no time do two worker threads run the main loop of the same
\* session, also after abort() and a new start(), and also when abort()'s
\* wait for the old worker's exit timed out
C39_OneLiveWorker == ~(InMainLoop(1) /\ InMainLoop(OldThread))

\* C40: closed means no document: whenever a worker thread is blocked at the
\* idle point of the main loop and the status of its session is closed, the
\* session holds no document and its remembered path is empty
C40_ClosedMeansNoDocument ==
    \A t \in Threads :
        (w[t].pc = "wait" /\ status[SessOf(t)] = closed) =>
            (doc[SessOf(t)] = NoFile /\ mFileName[SessOf(t)] = NoFile)
====
